---- MODULE Spec2Model ----
(***************************************************************************)
(* Model of the speech-to-speech dubbing service of apps/sts-service.      *)
(*                                                                         *)
(* Part 1 (specifications Spec and FairSpec): SimpleVITSServer of          *)
(* simple_vits_server.py: the Socket.IO handlers connect, disconnect and   *)
(* fragment:data, the processing queue, the processing worker thread and   *)
(* the control flow of _process_fragment.  The handlers run concurrently   *)
(* with the worker; every access to shared state (the counters, the client *)
(* table, the queue) is a step of its own.                                 *)
(*                                                                         *)
(* The speech recognition, translation, synthesis and codec collaborators  *)
(* are external: a call to one of them either returns or raises, and the   *)
(* model takes both outcomes.  (In the sources as they stand translate()   *)
(* of talk_multi_coqui.py takes two positional parameters and is called    *)
(* with three, so the raising outcome is the one a run would show.)        *)
(*                                                                         *)
(* Part 2 (specification AudioSpec): the audio arithmetic of               *)
(* _process_fragment from the synthesized audio on: duration matching,     *)
(* _adjust_audio_speed_in_memory, _mix_tts_with_background and the         *)
(* encoding, on sample sequences drawn from bounded sets.  Amplitudes are  *)
(* integers in units of 0.1, speed factors are fractions <<num, den>>.     *)
(*                                                                         *)
(* Part 3 (specification TextSpec): _is_likely_hallucination on texts      *)
(* given by their whitespace-separated words and their length in           *)
(* characters, with durations in tenths of a second.                       *)
(*                                                                         *)
(* Part 4 (specification LiveSpec): the control flow of                    *)
(* LiveStreamProcessor._process_fragment of stream_audio_client.py, the    *)
(* second implementation of the fragment pipeline, over a run of           *)
(* fragments that share the translation and synthesis caches.             *)
(*                                                                         *)
(* Part 5 (specification FnSpec): the functions of the pipeline that       *)
(* compute a result from their arguments alone, each called once on        *)
(* arguments drawn from bounded sets.  A text is the sequence of its       *)
(* tokens.                                                                 *)
(*                                                                         *)
(* Part 6 (specification StreamSpec): AudioStreamProcessor of              *)
(* talk_audio_stream.py: the main thread, _translation_worker and          *)
(* _audio_worker over the two queues between them.                         *)
(*                                                                         *)
(* Part 7 (specification BridgeSpec): STSStreamingBridge of                *)
(* sts_streaming_bridge.py: the handler of fragment:processed, the queue   *)
(* and the streaming worker.                                               *)
(*                                                                         *)
(* Part 8 (specification DetectorSpec): the speakers a SpeakerDetector of  *)
(* utils/speaker_detection.py tracks through calls of identify_speaker     *)
(* and register_speaker.                                                   *)
(***************************************************************************)
EXTENDS Integers, Sequences, FiniteSets, TLC

\* ------------------------------------------------------------ bounds
\* Number of fragment:data deliveries that arrive in one run.
MaxDeliveries == 2

\* Longest audio sequence, in samples.
MaxLen == 4
\* Longest transcript, in words.
MaxWords == 12
\* Number of fragments LiveStreamProcessor processes in one run.
MaxFragments == 2
MaxSegments == 2
MaxChars == 4
\* Number of segments the transcription of one audio file yields.
MaxUtterances == 2
\* Number of fragment:processed events the bridge receives in one run.
MaxEvents == 3
\* Number of calls of start_streaming_thread in one run.
MaxStarts == 2
\* max_speakers of the SpeakerDetector.
MaxSpeakers == 2
\* Number of calls of identify_speaker and register_speaker in one run.
MaxCalls == 3

\* ------------------------------------------------------------ domains
\* Connection ids handed out by Socket.IO; a sid is never reused.
Sids == {"s1", "s2"}
\* Kinds of delivery['data']: b'' (falsy) and a non-empty payload.  Whether a
\* non-empty payload decodes is decided by ffmpeg in the decode stage.
Payloads == {"empty", "bytes"}
\* Identities a thread started by start_server can take.
Threads == {"w1", "w2"}
\* Python's None as the return value of _process_fragment.
None == "None"
Deliveries == 1..MaxDeliveries

NoItem == [sid |-> "-", fragment |-> [id |-> "-"], data |-> "-", n |-> 0]

VARIABLES
    mainpc,             \* main thread: "boot", "serving", "exited"
    running,            \* self.running
    connected_clients,  \* self.connected_clients: sid -> counters
    ever_connected,     \* sids already handed out
    fragment_count,     \* self.fragment_count
    processed_count,    \* self.processed_count
    failed_count,       \* self.failed_count
    processing_queue,   \* self.processing_queue (queue.Queue)
    hpc,                \* per connection: position of its fragment:data handler
    hreq,               \* per connection: the delivery the handler is working on
    htmp,               \* per connection: value read by a read-modify-write
    wpc,                \* per thread: position in _processing_worker
    wcur,               \* per thread: (sid, fragment, data) taken from the queue
    wout,               \* per thread: processed_data
    emitted,            \* events handed to sio.emit, in order
    wstages,            \* per thread: stages run for the fragment in hand
    wraised,            \* per thread: stage whose exception ended the pipeline
    arrivals,           \* history: number of non-empty deliveries so far
    empties,            \* history: number of deliveries with empty data
    enqueued,           \* history: the items put on the queue, in put order
    hist,               \* history per enqueued item: dequeues, result, emit
    apc,                \* audio part: position in _process_fragment
    actual_sample_rate, \* sample rate of the decoded audio
    no_mixing,          \* args.no_mixing
    audio_data,         \* the decoded original audio
    tts_audio,          \* the synthesized audio as read and resampled
    synthesized_audio,  \* the synthesized audio, speed-adjusted in place
    required_speed,     \* the speed factor, <<1, 1>> when none is computed
    stretch_calls,      \* calls of _adjust_audio_speed_in_memory
    stretch_failed,     \* the call took its fallback (tool failed or a step threw)
    final_audio,        \* result of _mix_tts_with_background
    output,             \* what the audio part returns: encoded audio or None
    tpc,                \* text part: position in _is_likely_hallucination
    text,               \* its argument text: the words and len(text)
    original_duration,  \* its argument original_duration, in tenths of a second
    words,              \* text.lower().split()
    max_word_count,     \* max(word_counts.values())
    hallucination,      \* what the call returns: "True", "False", or "raised"
    lpc,                \* LiveStreamProcessor: position in _process_fragment
    lseen,              \* number of fragments it has entered
    no_cache,           \* args.no_cache
    mt_cache,           \* the files CACHE_DIR/<sha1(MT, text, lang)>.json
    ltranscript,        \* combined_text of the fragment in hand
    ltranslated,        \* mt_res["out"] of the fragment in hand
    linvoked,           \* collaborators called for the fragment in hand
    lcheck,             \* result of its hallucination check
    lout,               \* what _process_fragment returned for it
    lduration,          \* original_duration of the fragment in hand
    tts_cache,          \* the files CACHE_DIR/<sha1(TTS, text, ...)>.wav
    lwav,               \* the wav file read for the fragment in hand
    lhit,               \* whether that wav file came from the cache
    \* ---- the functions called on their own
    fpc,                \* "idle", "call" or "returned"
    fname,              \* the function called
    fargs,              \* its arguments
    fret,               \* what it returned
    \* ---- AudioStreamProcessor of talk_audio_stream.py
    spc,                \* main thread: position in process_audio_file
    srunning,           \* self.running
    translation_queue,  \* self.translation_queue: segments, oldest first
    audio_queue,        \* self.audio_queue: synthesized segments
    trpc,               \* position of _translation_worker
    trcur,              \* the segment it took from translation_queue
    aupc,               \* position of _audio_worker
    aucur,              \* the segment it took from audio_queue
    mixed_audio,        \* the segments mixed into self.mixed_audio
    saved,              \* what _save_mixed_audio wrote
    sput,               \* history: segments put on translation_queue
    sdropped,           \* history: segments a worker lost to an exception
    \* ---- STSStreamingBridge of sts_streaming_bridge.py
    bpc,                \* main thread: position in run
    brunning,           \* self.running
    bridge_queue,       \* self.audio_queue of the bridge
    bwpc,               \* per thread: position in _streaming_worker
    bwcur,              \* per thread: the item taken from the queue
    bevents,            \* history: fragment:processed events received
    bput,               \* history: the fragments put on the queue, in order
    bsent,              \* history: the calls of _send_to_demux, in order
    bstarts,            \* history: calls of start_streaming_thread
    \* ---- SpeakerDetector of utils/speaker_detection.py
    dpc,                \* "idle", or "ready" once it is constructed
    speaker_embeddings, \* self.speaker_embeddings, in insertion order
    next_speaker_id,    \* self.next_speaker_id
    dret,               \* what the last call returned
    dcalls,             \* history: number of calls so far
    doverwritten        \* history: ids that existed when they were created

vars == <<mainpc, running, connected_clients, ever_connected,
          fragment_count, processed_count, failed_count, processing_queue,
          hpc, hreq, htmp, wpc, wcur, wout, wstages, wraised, emitted,
          arrivals, empties, enqueued, hist, apc, actual_sample_rate, no_mixing,
          audio_data, tts_audio, synthesized_audio, required_speed,
          stretch_calls, stretch_failed, final_audio, output,
          tpc, text, original_duration, words, max_word_count, hallucination,
          lpc, lseen, no_cache, mt_cache, ltranscript, ltranslated, linvoked,
          lcheck, lout, lduration, tts_cache, lwav, lhit,
          fpc, fname, fargs, fret,
          spc, srunning, translation_queue, audio_queue, trpc, trcur,
          aupc, aucur, mixed_audio, saved, sput, sdropped,
          bpc, brunning, bridge_queue, bwpc, bwcur, bevents, bput, bsent,
          bstarts,
          dpc, speaker_embeddings, next_speaker_id, dret, dcalls,
          doverwritten>>

serverVars == <<mainpc, running, connected_clients, ever_connected,
                fragment_count, processed_count, failed_count,
                processing_queue, hpc, hreq, htmp, wpc, wcur, wout, wstages,
                wraised, emitted, arrivals, empties, enqueued, hist>>
audioVars == <<apc, actual_sample_rate, no_mixing, audio_data, tts_audio,
               synthesized_audio, required_speed, stretch_calls,
               stretch_failed, final_audio, output>>
textVars == <<tpc, text, original_duration, words, max_word_count,
              hallucination>>
liveVars == <<lpc, lseen, no_cache, mt_cache, ltranscript, ltranslated,
              linvoked, lcheck, lout, lduration, tts_cache, lwav, lhit>>
fnVars == <<fpc, fname, fargs, fret>>
streamVars == <<spc, srunning, translation_queue, audio_queue, trpc, trcur,
                aupc, aucur, mixed_audio, saved, sput, sdropped>>
\* The variables of the programs that run on their own.
bridgeVars == <<bpc, brunning, bridge_queue, bwpc, bwcur, bevents, bput,
                bsent, bstarts>>
detectorVars == <<dpc, speaker_embeddings, next_speaker_id, dret, dcalls,
                  doverwritten>>
toolVars == <<streamVars, bridgeVars, detectorVars>>
coreVars == <<serverVars, audioVars, textVars, liveVars, fnVars>>
mainVars == <<mainpc, running>>
clientVars == <<connected_clients, ever_connected>>
handlerVars == <<hpc, hreq, htmp>>
workerVars == <<wpc, wcur, wout, wstages, wraised>>
ghostVars == <<wstages, wraised>>
countVars == <<processed_count, failed_count>>

\* ------------------------------------------------------------ helpers
Range(s) == {s[i] : i \in 1..Len(s)}

NewClient == [fragments_received |-> 0, fragments_processed |-> 0]

NewHist == [takes |-> 0, entries |-> 0, result |-> "pending", emit |-> "-"]

\* queue.Queue.get: the oldest item, and the queue without it.
QueueGet_lifo(q) == [item |-> q[Len(q)], rest |-> SubSeq(q, 1, Len(q) - 1)]
QueueGet_peek(q) == [item |-> Head(q), rest |-> q]
QueueGet(q) == [item |-> Head(q), rest |-> Tail(q)]

\* queue.Queue.put: append at the tail.
QueuePut(q, item) == Append(q, item)

\* The threads start_server creates: one Thread(target=_processing_worker).
WorkerThreads_two == {"w1", "w2"}
WorkerThreads == {"w1"}

\* The payload of sio.emit('fragment:processed', {...}, room=sid).
ProcessedEvent_broadcast(item, out) ==
    [name |-> "fragment:processed", room |-> "*", fragment |-> item.fragment,
     data |-> out, processedSequentially |-> TRUE, n |-> item.n]
ProcessedEvent_error(item, out) ==
    [name |-> IF out = "original" THEN "fragment:error" ELSE "fragment:processed",
     room |-> item.sid, fragment |-> item.fragment,
     data |-> out, processedSequentially |-> TRUE, n |-> item.n]
ProcessedEvent(item, out) ==
    [name |-> "fragment:processed", room |-> item.sid, fragment |-> item.fragment,
     data |-> out, processedSequentially |-> TRUE, n |-> item.n]

\* ------------------------------------------------------------ initial state
ServerInit ==
    /\ mainpc = "boot"
    /\ running = FALSE
    /\ connected_clients = [s \in {} |-> NewClient]
    /\ ever_connected = {}
    /\ fragment_count = 0
    /\ processed_count = 0
    /\ failed_count = 0
    /\ processing_queue = <<>>
    /\ hpc = [s \in Sids |-> "idle"]
    /\ hreq = [s \in Sids |-> NoItem]
    /\ htmp = [s \in Sids |-> 0]
    /\ wpc = [t \in Threads |-> "unstarted"]
    /\ wcur = [t \in Threads |-> NoItem]
    /\ wout = [t \in Threads |-> None]
    /\ wstages = [t \in Threads |-> {}]
    /\ wraised = [t \in Threads |-> "-"]
    /\ emitted = <<>>
    /\ arrivals = 0
    /\ empties = 0
    /\ enqueued = <<>>
    /\ hist = [n \in Deliveries |-> NewHist]

\* The audio part at rest: Spec does not run it.
AudioIdle ==
    /\ apc = "idle"
    /\ actual_sample_rate = 10
    /\ no_mixing = FALSE
    /\ audio_data = <<>>
    /\ tts_audio = <<>>
    /\ synthesized_audio = <<>>
    /\ required_speed = <<1, 1>>
    /\ stretch_calls = 0
    /\ stretch_failed = FALSE
    /\ final_audio = <<>>
    /\ output = None

\* The text part at rest.
TextIdle ==
    /\ tpc = "idle"
    /\ text = [words |-> <<>>, chars |-> 0]
    /\ original_duration = 0
    /\ words = <<>>
    /\ max_word_count = 0
    /\ hallucination = "-"

\* LiveStreamProcessor at rest.
LiveIdle ==
    /\ lpc = "idle"
    /\ lseen = 0
    /\ no_cache = FALSE
    /\ mt_cache = [k \in {} |-> "-"]
    /\ ltranscript = "-"
    /\ ltranslated = "-"
    /\ linvoked = {}
    /\ lcheck = "-"
    /\ lout = "-"
    /\ lduration = 0
    /\ tts_cache = [k \in {} |-> "-"]
    /\ lwav = "-"
    /\ lhit = FALSE

\* No function is being called on its own.
FnIdle ==
    /\ fpc = "idle"
    /\ fname = "-"
    /\ fargs = <<>>
    /\ fret = <<>>

\* AudioStreamProcessor.__init__
StreamIdle ==
    /\ spc = "idle"
    /\ srunning = FALSE
    /\ translation_queue = <<>>
    /\ audio_queue = <<>>
    /\ trpc = "unstarted"
    /\ trcur = 0
    /\ aupc = "unstarted"
    /\ aucur = 0
    /\ mixed_audio = {}
    /\ saved = [done |-> FALSE, segments |-> {}]
    /\ sput = 0
    /\ sdropped = {}

\* STSStreamingBridge.__init__
BridgeIdle ==
    /\ bpc = "idle"
    /\ brunning = FALSE
    /\ bridge_queue = <<>>
    /\ bwpc = [w \in Threads |-> "unstarted"]
    /\ bwcur = [w \in Threads |-> 0]
    /\ bevents = 0
    /\ bput = <<>>
    /\ bsent = <<>>
    /\ bstarts = 0

\* No SpeakerDetector is constructed.
DetectorIdle ==
    /\ dpc = "idle"
    /\ speaker_embeddings = <<>>
    /\ next_speaker_id = 0
    /\ dret = "-"
    /\ dcalls = 0
    /\ doverwritten = {}

ToolsIdle == StreamIdle /\ BridgeIdle /\ DetectorIdle

Init == ServerInit /\ AudioIdle /\ TextIdle /\ LiveIdle /\ FnIdle /\ ToolsIdle

\* ------------------------------------------------------------ main thread
\* start_server, _preload_models returned True: running is set and the
\* processing thread is started before app.run serves the first request.
StartServer ==
    /\ mainpc = "boot"
    /\ running' = TRUE
    /\ wpc' = [t \in Threads |-> IF t \in WorkerThreads THEN "loop" ELSE "unstarted"]
    /\ mainpc' = "serving"
    /\ UNCHANGED <<clientVars, fragment_count, countVars,
                   processing_queue, handlerVars, wcur, wout, ghostVars,
                   emitted, arrivals, empties, enqueued, hist,
                   audioVars, textVars, liveVars, fnVars, toolVars>>

\* start_server, _preload_models returned False: start_server returns.
PreloadFailed ==
    /\ mainpc = "boot"
    /\ mainpc' = "exited"
    /\ UNCHANGED <<running, clientVars, fragment_count, countVars,
                   processing_queue, handlerVars, workerVars, emitted,
                   arrivals, empties, enqueued, hist,
                   audioVars, textVars, liveVars, fnVars, toolVars>>

\* start_server, KeyboardInterrupt out of app.run.
Shutdown ==
    /\ mainpc = "serving"
    /\ running' = FALSE
    /\ mainpc' = "exited"
    /\ UNCHANGED <<clientVars, fragment_count, countVars,
                   processing_queue, handlerVars, workerVars, emitted,
                   arrivals, empties, enqueued, hist,
                   audioVars, textVars, liveVars, fnVars, toolVars>>

\* ------------------------------------------------------------ Socket.IO handlers
Connect(sid) ==
    /\ mainpc = "serving"
    /\ sid \notin ever_connected
    /\ connected_clients' =
           [s \in DOMAIN connected_clients \cup {sid} |->
               IF s = sid THEN NewClient ELSE connected_clients[s]]
    /\ ever_connected' = ever_connected \cup {sid}
    /\ UNCHANGED <<mainVars, fragment_count, countVars,
                   processing_queue, handlerVars, workerVars, emitted,
                   arrivals, empties, enqueued, hist,
                   audioVars, textVars, liveVars, fnVars, toolVars>>

Disconnect(sid) ==
    /\ mainpc = "serving"
    /\ sid \in DOMAIN connected_clients
    /\ connected_clients' =
           [s \in DOMAIN connected_clients \ {sid} |-> connected_clients[s]]
    /\ UNCHANGED <<mainVars, ever_connected, fragment_count, countVars,
                   processing_queue, handlerVars, workerVars, emitted,
                   arrivals, empties, enqueued, hist,
                   audioVars, textVars, liveVars, fnVars, toolVars>>

\* fragment_data up to the read of self.fragment_count: an empty payload is
\* dropped and the handler returns with nothing changed, otherwise the
\* handler goes on with the value it read.  The client numbers its
\* fragments: fragment['id'] is the number of the delivery.
NotData_never(data) == FALSE
\* if not data
NotData(data) == data = "empty"

FragmentData(sid, data) ==
    /\ mainpc = "serving"
    /\ sid \in DOMAIN connected_clients
    /\ hpc[sid] = "idle"
    /\ arrivals + empties < MaxDeliveries
    /\ IF NotData(data)
       THEN /\ empties' = empties + 1
            /\ UNCHANGED <<handlerVars, arrivals>>
       ELSE /\ arrivals' = arrivals + 1
            /\ UNCHANGED empties
            /\ hpc' = [hpc EXCEPT ![sid] = "store_count"]
            /\ hreq' = [hreq EXCEPT ![sid] =
                   [sid |-> sid, fragment |-> [id |-> arrivals + 1],
                    data |-> data, n |-> 0]]
            /\ htmp' = [htmp EXCEPT ![sid] = fragment_count]
    /\ UNCHANGED <<mainVars, clientVars, fragment_count, countVars,
                   processing_queue, workerVars, emitted, enqueued, hist,
                   audioVars, textVars, liveVars, fnVars, toolVars>>

\* What fragment_data does after self.fragment_count += 1: the statistics
\* of the client, before the put.
AfterStoreCount_put == "put"
AfterStoreCount == "check"

\* self.fragment_count += 1, the store.
HandlerStoreCount(sid) ==
    /\ hpc[sid] = "store_count"
    /\ fragment_count' = htmp[sid] + 1
    /\ hpc' = [hpc EXCEPT ![sid] = AfterStoreCount]
    /\ UNCHANGED <<mainVars, clientVars, countVars, processing_queue,
                   hreq, htmp, workerVars, emitted, arrivals, empties, enqueued, hist,
                   audioVars, textVars, liveVars, fnVars, toolVars>>

\* if sid in self.connected_clients
HandlerCheckClient(sid) ==
    /\ hpc[sid] = "check"
    /\ hpc' = [hpc EXCEPT ![sid] =
           IF sid \in DOMAIN connected_clients THEN "count_received" ELSE "put"]
    /\ UNCHANGED <<mainVars, clientVars, fragment_count, countVars,
                   processing_queue, hreq, htmp, workerVars, emitted, arrivals, empties,
                   enqueued, hist,
                   audioVars, textVars, liveVars, fnVars, toolVars>>

\* self.connected_clients[sid]['fragments_received'] += 1.  Only this handler
\* writes the counter of its connection, so the read and the store are one
\* step; a KeyError (the client was removed after the test) ends the handler
\* in its except clause, before the put.
HandlerCountReceived(sid) ==
    /\ hpc[sid] = "count_received"
    /\ IF sid \in DOMAIN connected_clients
       THEN /\ connected_clients' =
                   [connected_clients EXCEPT ![sid].fragments_received = @ + 1]
            /\ hpc' = [hpc EXCEPT ![sid] = "put"]
            /\ UNCHANGED hreq
       ELSE /\ hpc' = [hpc EXCEPT ![sid] = "idle"]
            /\ hreq' = [hreq EXCEPT ![sid] = NoItem]
            /\ UNCHANGED connected_clients
    /\ UNCHANGED <<mainVars, ever_connected, fragment_count, countVars,
                   processing_queue, htmp, workerVars, emitted, arrivals, empties,
                   enqueued, hist,
                   audioVars, textVars, liveVars, fnVars, toolVars>>

\* self.processing_queue.put((sid, fragment, data))
HandlerPut(sid) ==
    /\ hpc[sid] = "put"
    /\ LET item == [hreq[sid] EXCEPT !.n = Len(enqueued) + 1] IN
           /\ processing_queue' = QueuePut(processing_queue, item)
           /\ enqueued' = Append(enqueued, item)
    /\ hpc' = [hpc EXCEPT ![sid] = "idle"]
    /\ hreq' = [hreq EXCEPT ![sid] = NoItem]
    /\ UNCHANGED <<mainVars, clientVars, fragment_count, countVars,
                   htmp, workerVars, emitted, arrivals, empties, hist,
                   audioVars, textVars, liveVars, fnVars, toolVars>>

\* ------------------------------------------------------------ processing worker
\* while self.running
WorkerLoop(t) ==
    /\ wpc[t] = "loop"
    /\ wpc' = [wpc EXCEPT ![t] = IF running THEN "get" ELSE "stopped"]
    /\ UNCHANGED <<mainVars, clientVars, fragment_count, countVars,
                   processing_queue, handlerVars, wcur, wout, ghostVars,
                   emitted, arrivals, empties, enqueued, hist,
                   audioVars, textVars, liveVars, fnVars, toolVars>>

\* Where the worker goes when the get times out: except queue.Empty:
\* continue, hence the loop test.
AfterEmpty_get == "get"
AfterEmpty == "loop"

\* self.processing_queue.get(timeout=1.0): the oldest item, or queue.Empty
\* after the timeout and back to the loop test.
WorkerGet(t) ==
    /\ wpc[t] = "get"
    /\ IF processing_queue = <<>>
       THEN /\ wpc' = [wpc EXCEPT ![t] = AfterEmpty]
            /\ UNCHANGED <<processing_queue, wcur, hist>>
       ELSE LET g == QueueGet(processing_queue) IN
            /\ processing_queue' = g.rest
            /\ wcur' = [wcur EXCEPT ![t] = g.item]
            /\ hist' = [hist EXCEPT ![g.item.n].takes = @ + 1]
            /\ wpc' = [wpc EXCEPT ![t] = "decode"]
    /\ UNCHANGED <<mainVars, clientVars, fragment_count, countVars,
                   handlerVars, wout, ghostVars, emitted, arrivals, empties,
                   enqueued,
                   audioVars, textVars, liveVars, fnVars, toolVars>>

\* ------------------------------------------------------------ _process_fragment
\* Positions of a thread that is inside _process_fragment.
PipelinePcs == {"decode", "speaker", "transcribe", "hallucination",
                "normalize", "translate", "synthesize", "match", "mix",
                "encode"}

\* Where control goes after the mixing.
StageAfterMix_match == "match"
StageAfterMix == "encode"

\* Every return of bytes is return self._encode_audio(...): the encoding
\* runs as the last thing before the return.
EncodeStage(out) == IF out = None THEN {} ELSE {"encode"}

\* What the pipeline does once the decode has failed.
AfterDecodeFailure_passthrough == "original"
AfterDecodeFailure == None

\* What the except clause around the whole pipeline returns.
AfterStageException == None

\* What the pipeline returns when the transcription has no segment:
\* self._encode_audio(audio_data, actual_sample_rate), the encoded original.
AfterNoSegments_none == None
AfterNoSegments == "original"

\* A stage of the pipeline runs for the fragment of thread t and control
\* moves on to position `next` inside the pipeline.
StageGoes(t, stage, next) ==
    /\ wpc' = [wpc EXCEPT ![t] = next]
    /\ wstages' = [wstages EXCEPT ![t] = @ \cup {stage}]
    /\ hist' = [hist EXCEPT ![wcur[t].n].entries =
                                IF stage = "decode" THEN @ + 1 ELSE @]
    /\ UNCHANGED <<wout, wraised,
                   audioVars, textVars, liveVars, fnVars, toolVars>>

\* A stage runs and _process_fragment returns `out` (bytes or None);
\* `raised` names the stage whose exception caused it, "-" when none did.
StageReturns(t, stage, raised, out) ==
    /\ wpc' = [wpc EXCEPT ![t] = "returned"]
    /\ wout' = [wout EXCEPT ![t] = out]
    /\ wstages' = [wstages EXCEPT ![t] = @ \cup {stage} \cup EncodeStage(out)]
    /\ wraised' = [wraised EXCEPT ![t] = raised]
    /\ hist' = [hist EXCEPT ![wcur[t].n].entries =
                                IF stage = "decode" THEN @ + 1 ELSE @,
                            ![wcur[t].n].result = out]

pipeFrame == <<audioVars, textVars, liveVars, fnVars, toolVars, mainVars, clientVars, fragment_count, countVars,
               processing_queue, handlerVars, wcur, emitted, arrivals, empties,
               enqueued>>

\* Entry, temporary file, ffmpeg decode and load_audio_file: the decoded
\* audio, or an exception of the extraction, which returns None.
PipeDecode(t) ==
    /\ wpc[t] = "decode"
    /\ \/ StageGoes(t, "decode", "speaker")
       \/ StageReturns(t, "decode", "decode", AfterDecodeFailure)
    /\ UNCHANGED pipeFrame

\* if self.speaker_detector: identify_speaker.  The configuration is not
\* part of the state: the stage is skipped (no detector configured), or it
\* runs and returns, or it runs and raises.
PipeSpeakerId(t) ==
    /\ wpc[t] = "speaker"
    /\ \/ /\ wpc' = [wpc EXCEPT ![t] = "transcribe"]
          /\ UNCHANGED <<wout, ghostVars, hist>>
       \/ StageGoes(t, "speaker", "transcribe")
       \/ StageReturns(t, "speaker", "speaker", AfterStageException)
    /\ UNCHANGED pipeFrame

\* transcribe_audio_chunk: segments; no segment; or an exception, which
\* transcribe_audio_chunk itself turns into no segment.  No segment returns
\* the encoded original audio.
PipeTranscribe(t) ==
    /\ wpc[t] = "transcribe"
    /\ \/ StageGoes(t, "transcribe", "hallucination")
       \/ StageReturns(t, "transcribe", "-", AfterNoSegments)
       \/ StageReturns(t, "transcribe", "transcribe", AfterNoSegments)
    /\ UNCHANGED pipeFrame

\* _is_likely_hallucination(combined_text, duration): False, True (the
\* encoded original is returned), or ZeroDivisionError on a declared
\* duration of 0.
PipeHallucination(t) ==
    /\ wpc[t] = "hallucination"
    /\ \/ StageGoes(t, "hallucination", "normalize")
       \/ StageReturns(t, "hallucination", "-", "original")
       \/ StageReturns(t, "hallucination", "hallucination", AfterStageException)
    /\ UNCHANGED pipeFrame

\* detect_speaker, clean_speaker_prefix, preprocess_text_for_translation.
PipeNormalize(t) ==
    /\ wpc[t] = "normalize"
    /\ StageGoes(t, "normalize", "translate")
    /\ UNCHANGED pipeFrame

\* translate(preprocessed_text, ...): a result or an exception.
PipeTranslate(t) ==
    /\ wpc[t] = "translate"
    /\ \/ StageGoes(t, "translate", "synthesize")
       \/ StageReturns(t, "translate", "translate", AfterStageException)
    /\ UNCHANGED pipeFrame

\* synth_to_wav or _synth_to_wav_vits_with_speaker: a wav file; no file
\* (the encoded original is returned); or an exception.  With a speaker
\* detector the voice comes from get_speaker_voice_config, and
\* _synth_to_wav_vits_with_speaker loads the model that vits_voices.yml
\* names for the speaker with get_tts: a model that was not preloaded and
\* may fail to load.
PipeSynthesize(t) ==
    /\ wpc[t] = "synthesize"
    /\ \/ StageGoes(t, "synthesize", "match")
       \/ StageReturns(t, "synthesize", "-", "original")
       \/ StageReturns(t, "synthesize", "synthesize", AfterStageException)
       \/ /\ "speaker" \in wstages[t]
          /\ StageReturns(t, "synthesize", "model_load", AfterStageException)
    /\ UNCHANGED pipeFrame

\* The duration matching: the comparison of the durations and, when they
\* differ, _adjust_audio_speed_in_memory; or an exception (the division by
\* the duration of an empty original).
PipeMatch(t) ==
    /\ wpc[t] = "match"
    /\ \/ StageGoes(t, "match", "mix")
       \/ StageReturns(t, "match", "match", AfterStageException)
    /\ UNCHANGED pipeFrame

\* The levels and _mix_tts_with_background; or an exception (np.max of an
\* empty array).
PipeMix(t) ==
    /\ wpc[t] = "mix"
    /\ \/ StageGoes(t, "mix", StageAfterMix)
       \/ StageReturns(t, "mix", "mix", AfterStageException)
    /\ UNCHANGED pipeFrame

\* return self._encode_audio(final_audio, actual_sample_rate), which
\* catches its own exceptions.
PipeEncode(t) ==
    /\ wpc[t] = "encode"
    /\ StageReturns(t, "encode", "-", "processed")
    /\ UNCHANGED pipeFrame

\* ------------------------------------------------------------ worker, after the pipeline
\* The worker is done with the fragment of thread t.
Done(t) ==
    /\ wpc' = [wpc EXCEPT ![t] = "loop"]
    /\ wcur' = [wcur EXCEPT ![t] = NoItem]
    /\ wout' = [wout EXCEPT ![t] = None]
    /\ wstages' = [wstages EXCEPT ![t] = {}]
    /\ wraised' = [wraised EXCEPT ![t] = "-"]

\* processed_data is not None: sio.emit(..., room=sid) and
\* self.processed_count += 1, or the emit raises and self.failed_count += 1.
WorkerEmit(t) ==
    /\ wpc[t] = "returned"
    /\ wout[t] # None
    /\ \/ /\ emitted' = Append(emitted, ProcessedEvent(wcur[t], wout[t]))
          /\ processed_count' = processed_count + 1
          /\ hist' = [hist EXCEPT ![wcur[t].n].emit = "sent"]
          /\ wpc' = [wpc EXCEPT ![t] = "check"]
          /\ wstages' = [wstages EXCEPT ![t] = {}]
          /\ wraised' = [wraised EXCEPT ![t] = "-"]
          /\ UNCHANGED <<failed_count, wcur, wout>>
       \/ /\ failed_count' = failed_count + 1
          /\ hist' = [hist EXCEPT ![wcur[t].n].emit = "raised"]
          /\ Done(t)
          /\ UNCHANGED <<emitted, processed_count>>
    /\ UNCHANGED <<mainVars, clientVars, fragment_count,
                   processing_queue, handlerVars, arrivals, empties, enqueued,
                   audioVars, textVars, liveVars, fnVars, toolVars>>

\* Where the worker goes after it has counted a failed fragment: the end of
\* the loop body, hence the loop test.
AfterFailure_stop == "stopped"
AfterFailure == "loop"

\* processed_data is None: self.failed_count += 1.
WorkerFailed(t) ==
    /\ wpc[t] = "returned"
    /\ wout[t] = None
    /\ failed_count' = failed_count + 1
    /\ wpc' = [wpc EXCEPT ![t] = AfterFailure]
    /\ wcur' = [wcur EXCEPT ![t] = NoItem]
    /\ wout' = [wout EXCEPT ![t] = None]
    /\ wstages' = [wstages EXCEPT ![t] = {}]
    /\ wraised' = [wraised EXCEPT ![t] = "-"]
    /\ UNCHANGED <<mainVars, clientVars, fragment_count,
                   processed_count, processing_queue, handlerVars,
                   emitted, arrivals, empties, enqueued, hist,
                   audioVars, textVars, liveVars, fnVars, toolVars>>

\* if sid in self.connected_clients
WorkerCheckClient(t) ==
    /\ wpc[t] = "check"
    /\ IF wcur[t].sid \in DOMAIN connected_clients
       THEN /\ wpc' = [wpc EXCEPT ![t] = "count_processed"]
            /\ UNCHANGED <<wcur, wout, ghostVars>>
       ELSE Done(t)
    /\ UNCHANGED <<mainVars, clientVars, fragment_count, countVars,
                   processing_queue, handlerVars, emitted, arrivals, empties,
                   enqueued, hist,
                   audioVars, textVars, liveVars, fnVars, toolVars>>

\* self.connected_clients[sid]['fragments_processed'] += 1.  Only the worker
\* writes this counter, so the read and the store are one step; a KeyError
\* (the client was removed after the test) is caught by the except clause
\* around the emit: self.failed_count += 1.
WorkerCountProcessed(t) ==
    /\ wpc[t] = "count_processed"
    /\ IF wcur[t].sid \in DOMAIN connected_clients
       THEN /\ connected_clients' =
                   [connected_clients EXCEPT
                       ![wcur[t].sid].fragments_processed = @ + 1]
            /\ UNCHANGED failed_count
       ELSE /\ failed_count' = failed_count + 1
            /\ UNCHANGED connected_clients
    /\ Done(t)
    /\ UNCHANGED <<mainVars, ever_connected, fragment_count,
                   processed_count, processing_queue, handlerVars,
                   emitted, arrivals, empties, enqueued, hist,
                   audioVars, textVars, liveVars, fnVars, toolVars>>

\* ------------------------------------------------------------ specification
Handler(sid) ==
    \/ \E data \in Payloads : FragmentData(sid, data)
    \/ HandlerStoreCount(sid)
    \/ HandlerCheckClient(sid)
    \/ HandlerCountReceived(sid)
    \/ HandlerPut(sid)

Worker(t) ==
    \/ WorkerLoop(t)
    \/ WorkerGet(t)
    \/ PipeDecode(t)
    \/ PipeSpeakerId(t)
    \/ PipeTranscribe(t)
    \/ PipeHallucination(t)
    \/ PipeNormalize(t)
    \/ PipeTranslate(t)
    \/ PipeSynthesize(t)
    \/ PipeMatch(t)
    \/ PipeMix(t)
    \/ PipeEncode(t)
    \/ WorkerEmit(t)
    \/ WorkerFailed(t)
    \/ WorkerCheckClient(t)
    \/ WorkerCountProcessed(t)

Next ==
    \/ StartServer
    \/ PreloadFailed
    \/ Shutdown
    \/ \E sid \in Sids : Connect(sid) \/ Disconnect(sid) \/ Handler(sid)
    \/ \E t \in Threads : Worker(t)

Spec == Init /\ [][Next]_vars

\* The worker is a thread of its own: the scheduler keeps running it, and
\* every call it makes returns.  Nothing obliges clients or the operator.
FairSpec == Spec /\ \A t \in WorkerThreads : WF_vars(Worker(t))

\* ------------------------------------------------------------ audio part
\* Sample values, in units of 0.1 of full scale.
Amp == {0, 10}
\* Sample rates of the decoded audio, in samples per second.
Rates == {5, 10}

Abs(x) == IF x < 0 THEN -x ELSE x
Min(a, b) == IF a < b THEN a ELSE b

\* The audio arrays of at most n samples.
Audio(n) == UNION {[1..k -> Amp] : k \in 0..n}

\* abs(tts_duration - original_duration) > 0.1, the durations being
\* len(...) / actual_sample_rate.
DurationsDiffer(tts, original, rate) ==
    10 * Abs(Len(tts) - Len(original)) > rate

\* max(1.0, min(2.0, tts_duration / original_duration)) as a fraction.
RequiredSpeed_uncapped(tts, original) ==
    IF Len(tts) < Len(original) THEN <<1, 1>>
    ELSE <<Len(tts), Len(original)>>
RequiredSpeed_cap3(tts, original) ==
    IF Len(tts) > 3 * Len(original) THEN <<3, 1>>
    ELSE IF Len(tts) < Len(original) THEN <<1, 1>>
    ELSE <<Len(tts), Len(original)>>
RequiredSpeed(tts, original) ==
    IF Len(tts) > 2 * Len(original) THEN <<2, 1>>
    ELSE IF Len(tts) < Len(original) THEN <<1, 1>>
    ELSE <<Len(tts), Len(original)>>

\* required_speed > 1.0
FasterThanOne(speed) == speed[1] > speed[2]

\* What rubberband -T<speed> writes for an input of n samples: n / speed
\* samples, rounded down or up, of any content.
Stretched(n, speed) ==
    LET exact == (n * speed[2]) \div speed[1]
        up == IF (n * speed[2]) % speed[1] = 0 THEN exact ELSE exact + 1
    IN  [1..exact -> Amp] \cup [1..up -> Amp]

\* What _adjust_audio_speed_in_memory returns when rubberband exits non-zero
\* (return audio_data) or when any step throws (the except clause returns
\* audio_data): its input.
StretchFallback_cut(audio) == SubSeq(audio, 1, Len(audio) - 1)
StretchFallback(audio) == audio

\* _mix_tts_with_background: both arrays are cut to the shorter length; the
\* result is 0.7 * tts + 0.3 * original, or, with no_mixing, the cut tts
\* (the closing print then raises on the unbound tts_volume and the except
\* clause returns the cut tts_audio as well).
MixTtsWithBackground_swapped(tts, original, tts_only) ==
    LET min_length == Min(Len(tts), Len(original))
    IN  IF tts_only
        THEN SubSeq(tts, 1, min_length)
        ELSE [i \in 1..min_length |-> (3 * tts[i] + 7 * original[i]) \div 10]
MixTtsWithBackground_whole_background(tts, original, tts_only) ==
    IF tts_only
    THEN SubSeq(tts, 1, Min(Len(tts), Len(original)))
    ELSE [i \in 1..Len(original) |->
             (7 * (IF i <= Len(tts) THEN tts[i] ELSE 0) + 3 * original[i]) \div 10]
MixTtsWithBackground_pad(tts, original, tts_only) ==
    [i \in 1..(IF Len(tts) > Len(original) THEN Len(tts) ELSE Len(original)) |->
        IF tts_only
        THEN IF i <= Len(tts) THEN tts[i] ELSE 0
        ELSE (7 * (IF i <= Len(tts) THEN tts[i] ELSE 0)
              + 3 * (IF i <= Len(original) THEN original[i] ELSE 0)) \div 10]
MixTtsWithBackground(tts, original, tts_only) ==
    LET min_length == Min(Len(tts), Len(original))
        t == SubSeq(tts, 1, min_length)
        o == SubSeq(original, 1, min_length)
    IN  IF tts_only
        THEN t
        ELSE [i \in 1..min_length |-> (7 * t[i] + 3 * o[i]) \div 10]

\* _encode_audio: the mp4 container, or the raw bytes of the array when the
\* encoder fails; both carry the samples they were given.
EncodeAudio(audio, rate) ==
    {[container |-> c, rate |-> rate, samples |-> audio] : c \in {"m4s", "raw"}}

\* _process_fragment holds the decoded original and the synthesized audio,
\* both at actual_sample_rate.
AudioInit ==
    /\ ServerInit
    /\ FnIdle
    /\ ToolsIdle
    /\ TextIdle
    /\ LiveIdle
    /\ apc = "match"
    /\ actual_sample_rate \in Rates
    /\ no_mixing \in BOOLEAN
    /\ audio_data \in Audio(MaxLen)
    /\ tts_audio \in Audio(MaxLen)
    /\ synthesized_audio = tts_audio
    /\ required_speed = <<1, 1>>
    /\ stretch_calls = 0
    /\ stretch_failed = FALSE
    /\ final_audio = <<>>
    /\ output = None

\* An exception in the audio part: the except clause of _process_fragment
\* returns None.
AudioRaises ==
    /\ apc' = "raised"
    /\ output' = None

\* The duration test and the speed factor.  An original of no samples makes
\* the division raise.
AudioMatch ==
    /\ apc = "match"
    /\ IF DurationsDiffer(synthesized_audio, audio_data, actual_sample_rate)
       THEN IF Len(audio_data) = 0
            THEN AudioRaises /\ UNCHANGED required_speed
            ELSE /\ required_speed' = RequiredSpeed(synthesized_audio, audio_data)
                 /\ apc' = IF FasterThanOne(required_speed') THEN "stretch" ELSE "levels"
                 /\ UNCHANGED output
       ELSE /\ apc' = "levels"
            /\ UNCHANGED <<required_speed, output>>
    /\ UNCHANGED <<serverVars, textVars, liveVars, fnVars, toolVars, actual_sample_rate, no_mixing, audio_data,
                   tts_audio, synthesized_audio, stretch_calls, stretch_failed,
                   final_audio>>

\* _adjust_audio_speed_in_memory(synthesized_audio, rate, required_speed):
\* the stretched audio, or the input when rubberband fails or cannot be run.
AudioStretch ==
    /\ apc = "stretch"
    /\ stretch_calls' = stretch_calls + 1
    /\ \/ /\ synthesized_audio' \in Stretched(Len(synthesized_audio), required_speed)
          /\ stretch_failed' = FALSE
       \/ /\ synthesized_audio' = StretchFallback(synthesized_audio)
          /\ stretch_failed' = TRUE
    /\ apc' = "levels"
    /\ UNCHANGED <<serverVars, textVars, liveVars, fnVars, toolVars, actual_sample_rate, no_mixing, audio_data,
                   tts_audio, required_speed, final_audio, output>>

\* np.max(np.abs(synthesized_audio)), np.max(np.abs(audio_data)): np.max
\* raises on an array of no samples.
AudioLevels ==
    /\ apc = "levels"
    /\ IF synthesized_audio = <<>> \/ audio_data = <<>>
       THEN AudioRaises
       ELSE apc' = "mix" /\ UNCHANGED output
    /\ UNCHANGED <<serverVars, textVars, liveVars, fnVars, toolVars, actual_sample_rate, no_mixing, audio_data,
                   tts_audio, synthesized_audio, required_speed, stretch_calls,
                   stretch_failed, final_audio>>

\* final_audio = self._mix_tts_with_background(...)
AudioMix ==
    /\ apc = "mix"
    /\ final_audio' = MixTtsWithBackground(synthesized_audio, audio_data, no_mixing)
    /\ apc' = "encode"
    /\ UNCHANGED <<serverVars, textVars, liveVars, fnVars, toolVars, actual_sample_rate, no_mixing, audio_data,
                   tts_audio, synthesized_audio, required_speed, stretch_calls,
                   stretch_failed, output>>

\* return self._encode_audio(final_audio, actual_sample_rate)
AudioEncode ==
    /\ apc = "encode"
    /\ output' \in EncodeAudio(final_audio, actual_sample_rate)
    /\ apc' = "done"
    /\ UNCHANGED <<serverVars, textVars, liveVars, fnVars, toolVars, actual_sample_rate, no_mixing, audio_data,
                   tts_audio, synthesized_audio, required_speed, stretch_calls,
                   stretch_failed, final_audio>>

AudioNext ==
    \/ AudioMatch
    \/ AudioStretch
    \/ AudioLevels
    \/ AudioMix
    \/ AudioEncode

AudioSpec == AudioInit /\ [][AudioNext]_vars

\* ------------------------------------------------------------ text part
\* A text is given by its words, in order, and by len(text).  The tokens
\* name words: "Goal" and "goal" differ in case only, the others are
\* pairwise different words.
Fillers == <<"the", "ball", "goes", "wide", "of", "far", "post", "and",
             "out", "for", "a", "corner", "kick">>
\* Characters per word of the texts drawn.
WordChars == {3, 9}
\* Declared durations, in tenths of a second.
Durations == {0, 5, 10, 30}

\* The text of n words of c characters, single spaces between them, that
\* starts with k times the word goal, in alternating case.
MakeText(n, k, c) ==
    [words |-> [i \in 1..n |->
                   IF i <= k THEN (IF i % 2 = 1 THEN "Goal" ELSE "goal")
                             ELSE Fillers[i - k]],
     chars |-> IF n = 0 THEN 0 ELSE n * c + (n - 1)]

Texts == {MakeText(n, k, c) : n \in 0..MaxWords, k \in 0..MaxWords, c \in WordChars}

\* str.lower on a word.
Lower(w) == IF w = "Goal" THEN "goal" ELSE w

\* text.lower().split()
LowerSplit(t) == [i \in 1..Len(t.words) |-> Lower(t.words[i])]

\* The dict word_counts built by the loop over words.
WordCounts(ws) ==
    [w \in Range(ws) |-> Cardinality({i \in 1..Len(ws) : ws[i] = w})]

\* max(word_counts.values())
MaxWordCount(ws) ==
    LET word_counts == WordCounts(ws)
    IN  CHOOSE m \in {word_counts[w] : w \in DOMAIN word_counts} :
            \A w \in DOMAIN word_counts : word_counts[w] <= m

\* max_word_count > len(words) * 0.3
Repetitive_half(count, ws) == 2 * count > Len(ws)
Repetitive(count, ws) == 10 * count > 3 * Len(ws)

\* words_per_second = len(words) / original_duration; words_per_second > 15
WordDensityUnrealistic_off(ws, duration) == FALSE
WordDensityUnrealistic(ws, duration) == 10 * Len(ws) > 15 * duration

\* chars_per_second = len(text) / original_duration; chars_per_second > 100
CharDensityUnrealistic(t, duration) == 10 * t.chars > 100 * duration

\* _is_likely_hallucination is called with a text and a duration.
TextInit ==
    /\ ServerInit
    /\ FnIdle
    /\ ToolsIdle
    /\ AudioIdle
    /\ LiveIdle
    /\ tpc = "split"
    /\ text \in Texts
    /\ original_duration \in Durations
    /\ words = <<>>
    /\ max_word_count = 0
    /\ hallucination = "-"

\* The call returns `result`.
HallucinationReturns(result) ==
    /\ tpc' = "done"
    /\ hallucination' = result

\* words = text.lower().split(); if len(words) < 10: return False
HallucinationSplit ==
    /\ tpc = "split"
    /\ words' = LowerSplit(text)
    /\ IF Len(words') < 10
       THEN HallucinationReturns("False")
       ELSE tpc' = "repetition" /\ UNCHANGED hallucination
    /\ UNCHANGED <<serverVars, audioVars, liveVars, fnVars, toolVars, text, original_duration, max_word_count>>

\* The word counts and the repetition test.
HallucinationRepetition ==
    /\ tpc = "repetition"
    /\ max_word_count' = MaxWordCount(words)
    /\ IF Repetitive(max_word_count', words)
       THEN HallucinationReturns("True")
       ELSE tpc' = "word_density" /\ UNCHANGED hallucination
    /\ UNCHANGED <<serverVars, audioVars, liveVars, fnVars, toolVars, text, original_duration, words>>

\* The word density test; the division raises ZeroDivisionError on a
\* duration of 0.
HallucinationWordDensity ==
    /\ tpc = "word_density"
    /\ IF original_duration = 0
       THEN HallucinationReturns("raised")
       ELSE IF WordDensityUnrealistic(words, original_duration)
            THEN HallucinationReturns("True")
            ELSE tpc' = "char_density" /\ UNCHANGED hallucination
    /\ UNCHANGED <<serverVars, audioVars, liveVars, fnVars, toolVars, text, original_duration, words,
                   max_word_count>>

\* The character density test and the final return False.
HallucinationCharDensity ==
    /\ tpc = "char_density"
    /\ IF CharDensityUnrealistic(text, original_duration)
       THEN HallucinationReturns("True")
       ELSE HallucinationReturns("False")
    /\ UNCHANGED <<serverVars, audioVars, liveVars, fnVars, toolVars, text, original_duration, words,
                   max_word_count>>

TextNext ==
    \/ HallucinationSplit
    \/ HallucinationRepetition
    \/ HallucinationWordDensity
    \/ HallucinationCharDensity

TextSpec == TextInit /\ [][TextNext]_vars

\* ------------------------------------------------------------ LiveStreamProcessor
\* Transcripts of fragments with speech, and the texts the translation
\* returns for them: "repetitive" stands for a text on which
\* _is_likely_hallucination returns True, "plain" for one on which it
\* returns False.
Transcripts == {"kickoff", "corner"}
Translations == {"plain", "repetitive"}

\* self._is_likely_hallucination(translated_text, original_duration)
LiveIsHallucination(translated) == translated = "repetitive"

\* original_duration = len(audio_data) / sample_rate, in seconds.
LiveDurations == {2, 4, 8}

\* baseline_duration: the length in seconds of the wav file synth_to_wav
\* writes for a text (the same text, language, model and speaker give the
\* same file).
BaselineDuration(translated) == 6

\* required_speed = max(1.0, min(2.0, baseline_duration / original_duration))
\* as the fraction <<numerator, denominator>>.
LiveRequiredSpeed(baseline, original) ==
    IF baseline > 2 * original THEN <<2, 1>>
    ELSE IF baseline < original THEN <<1, 1>>
    ELSE <<baseline, original>>

\* _adjust_audio_speed: the wav file of the text at the required tempo, or
\* a copy of the synthesized file when rubberband fails.
AdjustedWavs(translated, original) ==
    {[text |-> translated, speed |-> s] :
        s \in {LiveRequiredSpeed(BaselineDuration(translated), original),
                <<1, 1>>}}

\* tts_key = sha1("TTS", mt_res["out"], target_lang, model_name, speaker,
\* "post_process"): language, model and speaker are fixed for the run, so
\* the key is the translated text.
TtsKey(translated, original) == translated

LiveInit ==
    /\ ServerInit
    /\ FnIdle
    /\ ToolsIdle
    /\ AudioIdle
    /\ TextIdle
    /\ lpc = "entry"
    /\ lseen = 0
    /\ no_cache \in BOOLEAN
    /\ mt_cache = [k \in {} |-> "-"]
    /\ ltranscript = "-"
    /\ ltranslated = "-"
    /\ linvoked = {}
    /\ lcheck = "-"
    /\ lout = "-"
    /\ lduration = 0
    /\ tts_cache = [k \in {} |-> "-"]
    /\ lwav = "-"
    /\ lhit = FALSE

\* _process_fragment returns `out`: bytes ("data" for the bytes it was
\* given, "original" for the decoded audio encoded again, "processed" for
\* the encoded synthesized audio) or None.
LiveReturns(out) ==
    /\ lpc' = "returned"
    /\ lout' = out

liveFrame == <<serverVars, audioVars, textVars, fnVars, toolVars, no_cache>>

\* The worker calls _process_fragment for the next fragment.  The audio is
\* extracted with ffmpeg, or replaced by a test tone when that fails, and
\* resampled to 16 kHz; an exception of the resampling returns None.
LiveEntry ==
    /\ lpc \in {"entry", "returned"}
    /\ lseen < MaxFragments
    /\ lseen' = lseen + 1
    /\ ltranscript' = "-"
    /\ ltranslated' = "-"
    /\ linvoked' = {}
    /\ lcheck' = "-"
    /\ lduration' \in LiveDurations
    /\ lwav' = "-"
    /\ lhit' = FALSE
    /\ \/ lpc' = "silence" /\ lout' = "-"
       \/ LiveReturns(None)
    /\ UNCHANGED <<liveFrame, mt_cache, tts_cache>>

\* if self._is_silent_audio(audio_data): return data
LiveSilence ==
    /\ lpc = "silence"
    /\ \/ LiveReturns("data")
       \/ lpc' = "transcribe" /\ UNCHANGED lout
    /\ UNCHANGED <<liveFrame, lseen, mt_cache, ltranscript, ltranslated,
                   linvoked, lcheck, lduration, tts_cache, lwav, lhit>>

\* transcribe_audio_chunk and the filter of the segments against the
\* duration: no segment left returns data, otherwise the segments are
\* joined to combined_text.
LiveTranscribe ==
    /\ lpc = "transcribe"
    /\ linvoked' = linvoked \cup {"transcribe"}
    /\ \/ LiveReturns("data") /\ UNCHANGED ltranscript
       \/ /\ ltranscript' \in Transcripts
          /\ lpc' = "translate"
          /\ UNCHANGED lout
    /\ UNCHANGED <<liveFrame, lseen, mt_cache, ltranslated, lcheck,
                   lduration, tts_cache, lwav, lhit>>

\* The translation: translate is called when the cache is off or has no
\* file for the text, and its result is written to the cache unless the
\* cache is off; otherwise the cached result is read.  An exception of
\* translate returns None.
LiveTranslate ==
    /\ lpc = "translate"
    /\ IF no_cache \/ ltranscript \notin DOMAIN mt_cache
       THEN /\ linvoked' = linvoked \cup {"translate"}
            /\ \/ /\ ltranslated' \in Translations
                  /\ mt_cache' =
                         IF no_cache THEN mt_cache
                         ELSE [k \in DOMAIN mt_cache \cup {ltranscript} |->
                                  IF k = ltranscript THEN ltranslated'
                                  ELSE mt_cache[k]]
                  /\ lpc' = "check"
                  /\ UNCHANGED lout
               \/ /\ LiveReturns(None)
                  /\ UNCHANGED <<ltranslated, mt_cache>>
       ELSE /\ ltranslated' = mt_cache[ltranscript]
            /\ lpc' = "check"
            /\ UNCHANGED <<linvoked, mt_cache, lout>>
    /\ UNCHANGED <<liveFrame, lseen, ltranscript, lcheck, lduration,
                   tts_cache, lwav, lhit>>

\* The hallucination check on the translated text.  On True the code calls
\* self._encode_processed_audio, a method LiveStreamProcessor does not
\* have: the AttributeError is caught by the except clause of
\* _process_fragment, which returns None.
LiveCheck ==
    /\ lpc = "check"
    /\ IF LiveIsHallucination(ltranslated)
       THEN /\ lcheck' = "True"
            /\ LiveReturns(None)
       ELSE /\ lcheck' = "False"
            /\ lpc' = "synthesize"
            /\ UNCHANGED lout
    /\ UNCHANGED <<liveFrame, lseen, mt_cache, ltranscript, ltranslated,
                   linvoked, lduration, tts_cache, lwav, lhit>>

\* The synthesis: _optimize_tts_synthesis and _adjust_audio_speed when the
\* cache is off or has no wav file under the key, and the adjusted file is
\* kept under the key unless the cache is off; otherwise the wav file under
\* the key is used as it is.  An exception returns None.
LiveSynthesize ==
    /\ lpc = "synthesize"
    /\ LET key == TtsKey(ltranslated, lduration) IN
       IF no_cache \/ key \notin DOMAIN tts_cache
       THEN /\ linvoked' = linvoked \cup {"synthesize"}
            /\ \/ /\ lwav' \in AdjustedWavs(ltranslated, lduration)
                  /\ tts_cache' =
                         IF no_cache THEN tts_cache
                         ELSE [k \in DOMAIN tts_cache \cup {key} |->
                                  IF k = key THEN lwav' ELSE tts_cache[k]]
                  /\ lpc' = "encode"
                  /\ UNCHANGED <<lout, lhit>>
               \/ /\ LiveReturns(None)
                  /\ UNCHANGED <<tts_cache, lwav, lhit>>
       ELSE /\ lwav' = tts_cache[key]
            /\ lhit' = TRUE
            /\ lpc' = "encode"
            /\ UNCHANGED <<linvoked, tts_cache, lout>>
    /\ UNCHANGED <<liveFrame, lseen, mt_cache, ltranscript, ltranslated,
                   lcheck, lduration>>

\* Reading the synthesized audio and encoding it; an exception of the read
\* returns None.
LiveEncode ==
    /\ lpc = "encode"
    /\ \/ LiveReturns("processed")
       \/ LiveReturns(None)
    /\ UNCHANGED <<liveFrame, lseen, mt_cache, ltranscript, ltranslated,
                   linvoked, lcheck, lduration, tts_cache, lwav, lhit>>

LiveNext ==
    \/ LiveEntry
    \/ LiveSilence
    \/ LiveTranscribe
    \/ LiveTranslate
    \/ LiveCheck
    \/ LiveSynthesize
    \/ LiveEncode

LiveSpec == LiveInit /\ [][LiveNext]_vars

\* ------------------------------------------------------------ functions
\* The function `name` returns `value`.
FnReturns(name, value) ==
    /\ fpc = "call"
    /\ fname = name
    /\ fpc' = "returned"
    /\ fret' = value
    /\ UNCHANGED <<fname, fargs, serverVars, audioVars, textVars, liveVars,
                   toolVars>>

Returned(name) == fpc = "returned" /\ fname = name

\* ---- the segments of a transcription
\* What transcribe_audio_chunk returns: segments (start, end, text) in
\* time order, each of positive length.  Offsets are in seconds.
Segments ==
    {seg \in [start : 0..4, end : 0..4, text : {"goal", "save"}] :
        seg.start < seg.end}

SegmentLists ==
    {segs \in UNION {[1..n -> Segments] : n \in 0..MaxSegments} :
        \A i, j \in 1..Len(segs) : i < j => segs[i].end <= segs[j].start}

RECURSIVE FilterSegments(_, _)
\* LiveStreamProcessor: the loop over the segments that keeps a segment
\* with start < expected_duration_seconds and min(end, expected) > start,
\* with its end truncated.
FilterSegments(segs, expected) ==
    IF segs = <<>> THEN <<>>
    ELSE LET seg == Head(segs)
             truncated_end == Min(seg.end, expected)
             rest == FilterSegments(Tail(segs), expected)
         IN  IF seg.start < expected /\ truncated_end > seg.start
             THEN <<[seg EXCEPT !.end = truncated_end]>> \o rest
             ELSE rest

\* " ".join([seg[2] for seg in segments]): the texts in the order of the
\* segments.
JoinSegments(segs) == [i \in 1..Len(segs) |-> segs[i].text]

\* What a pipeline does with the segments: pass the fragment through when
\* there is none, go on with the combined text otherwise.
SegmentsResult(segs) ==
    [passthrough |-> segs = <<>>, segments |-> segs,
     combined_text |-> JoinSegments(segs)]

\* LiveStreamProcessor._process_fragment from the transcription to
\* combined_text.
LiveCombineSegments ==
    FnReturns("live_segments",
              SegmentsResult(FilterSegments(fargs.segments, fargs.duration)))

\* SimpleVITSServer._process_fragment from the transcription to
\* combined_text: the segments are used as transcribe_audio_chunk returned
\* them.
ServerCombineSegments ==
    FnReturns("server_segments", SegmentsResult(fargs.segments))

\* ---- the metadata of a fragment
\* A value of the fragment dictionary: a number, a string (`value` is the
\* number its digits spell) or no entry under the key.
Absent == [type |-> "absent", value |-> 0]
Number(v) == [type |-> "number", value |-> v]

DeclaredDurations ==
    {Absent, [type |-> "string", value |-> 3000]}
        \cup {Number(v) : v \in {0, 3, 30, 100, 101, 3000}}
DeclaredSampleRates == {Absent, Number(16000), Number(48000)}

\* fragment.get(key, default)
Get(fragment, key, default) ==
    IF fragment[key] = Absent THEN Number(default) ELSE fragment[key]

\* The same with the threshold moved to 100 inclusive.
DurationInSeconds_from100(fragment) ==
    LET duration == Get(fragment, "duration", 30) IN
    IF duration.type = "number" /\ duration.value >= 100
    THEN [type |-> "number", num |-> duration.value, den |-> 1000]
    ELSE [type |-> duration.type, num |-> duration.value, den |-> 1]

\* duration = fragment.get('duration', 30), divided by 1000.0 when it is
\* an int or a float above 100.  The result is in seconds, as the
\* fraction num / den.
DurationInSeconds(fragment) ==
    LET duration == Get(fragment, "duration", 30) IN
    IF duration.type = "number" /\ duration.value > 100
    THEN [type |-> "number", num |-> duration.value, den |-> 1000]
    ELSE [type |-> duration.type, num |-> duration.value, den |-> 1]

\* The first lines of SimpleVITSServer._process_fragment, with
\* sample_rate = fragment.get('sampleRate', 44100).
FragmentMetadata ==
    FnReturns("metadata", [sample_rate |-> Get(fargs, "sampleRate", 44100),
                           duration |-> DurationInSeconds(fargs)])

\* ---- the voice of a speaker
SpeakerIds == {"commentator", "stranger"}
Languages == {"es", "xx"}

\* SpeakerDetector.get_speaker_voice_config: the entry that is copied and
\* the config_type it is given.  A configuration is the set of the paths
\* of the entries it has: vits_models[lang][key] of the VITS
\* configuration, speaker_mapping[key] and languages[lang].speakers[key]
\* of the legacy voices configuration.
GetSpeakerVoiceConfig(speaker_id, target_lang, voices_config, vits_config) ==
    IF <<"vits_models", target_lang, speaker_id>> \in vits_config
    THEN [config_type |-> "vits",
          entry |-> <<"vits_models", target_lang, speaker_id>>]
    ELSE IF <<"vits_models", target_lang, "default">> \in vits_config
    THEN [config_type |-> "vits",
          entry |-> <<"vits_models", target_lang, "default">>]
    ELSE IF <<"speaker_mapping", speaker_id>> \in voices_config
    THEN [config_type |-> "legacy",
          entry |-> <<"speaker_mapping", speaker_id>>]
    ELSE IF <<"languages", target_lang, "speakers", speaker_id>>
                \in voices_config
    THEN [config_type |-> "legacy",
          entry |-> <<"languages", target_lang, "speakers", speaker_id>>]
    ELSE IF <<"speaker_mapping", "default">> \in voices_config
    THEN [config_type |-> "legacy",
          entry |-> <<"speaker_mapping", "default">>]
    ELSE [config_type |-> "fallback", entry |-> <<"css10", target_lang>>]

SpeakerVoiceConfig ==
    FnReturns("get_speaker_voice_config",
              GetSpeakerVoiceConfig(fargs.speaker_id, fargs.target_lang,
                                    fargs.voices_config, fargs.vits_config))

\* The voices table of get_speaker_voice: voices[lang] with its model, its
\* multi_speaker flag and its speakers, as the set of the paths it has.
VoiceTables ==
    {{}} \cup
    {{<<"es", "model">>} \cup multi \cup speakers :
        multi \in SUBSET {<<"es", "multi_speaker">>},
        speakers \in SUBSET {<<"es", "speakers", k>> :
                                 k \in {"commentator", "default"}}}

\* get_speaker_voice of talk_multi_coqui.py: (model_name, speaker_id,
\* voice_sample), each the path of the entry it was read from, the
\* hard-coded speaker name or None.
GetSpeakerVoice(voices, language, speaker) ==
    LET model_name ==
            IF <<language, "model">> \in voices
            THEN <<language, "model">> ELSE <<None>>
        is_multi_speaker == <<language, "multi_speaker">> \in voices
        chosen ==
            IF <<language, "speakers", speaker>> \in voices
            THEN <<language, "speakers", speaker>>
            ELSE IF <<language, "speakers", "default">> \in voices
            THEN <<language, "speakers", "default">>
            ELSE <<None>>
        speaker_id ==
            IF ~is_multi_speaker THEN <<None>>
            ELSE IF chosen = <<None>> THEN <<"Andrew Chipper">>
            ELSE chosen \o <<"speaker">>
        voice_sample ==
            IF chosen = <<None>> THEN <<None>>
            ELSE chosen \o <<"voice_sample">>
    IN  [model_name |-> model_name, speaker_id |-> speaker_id,
         voice_sample |-> voice_sample, entry |-> chosen]

SpeakerVoice ==
    FnReturns("get_speaker_voice",
              GetSpeakerVoice(fargs.voices, fargs.language, fargs.speaker))

\* ---- texts
\* A text is the sequence of its characters.
StartsWith(str, prefix) ==
    /\ Len(prefix) <= Len(str)
    /\ SubSeq(str, 1, Len(prefix)) = prefix

Drop(str, n) == SubSeq(str, n + 1, Len(str))

\* \s of the regular expressions, str.isspace
IsSpace(c) == c = " "

RECURSIVE LStrip(_)
LStrip(str) ==
    IF str # <<>> /\ IsSpace(Head(str)) THEN LStrip(Tail(str)) ELSE str

RECURSIVE RStrip(_)
RStrip(str) ==
    IF str # <<>> /\ IsSpace(str[Len(str)])
    THEN RStrip(SubSeq(str, 1, Len(str) - 1))
    ELSE str

\* str.strip()
Strip(str) == RStrip(LStrip(str))

\* ---- clean_speaker_prefix
\* re.sub(rf'^{re.escape(speaker)}:?\s*', '', text): at the start of the
\* text the speaker, a colon if there is one and all white space after it
\* are removed; a text that does not start with the speaker is left as it
\* is.
RemoveSpeakerPattern(str, speaker) ==
    IF StartsWith(str, speaker)
    THEN LET rest == Drop(str, Len(speaker))
             after_colon ==
                 IF rest # <<>> /\ Head(rest) = ":" THEN Tail(rest) ELSE rest
         IN  LStrip(after_colon)
    ELSE str

\* clean_speaker_prefix(text, speaker)
CleanSpeakerPrefix(str, speaker) == Strip(RemoveSpeakerPattern(str, speaker))

CleanPrefix ==
    FnReturns("clean_speaker_prefix",
              CleanSpeakerPrefix(fargs.text, fargs.speaker))

\* ---- preprocess_text_for_translation
UpperCase ==
    <<"A", "B", "C", "D", "E", "F", "G", "H", "I", "J", "K", "L", "M",
      "N", "O", "P", "Q", "R", "S", "T", "U", "V", "W", "X", "Y", "Z">>
LowerCase ==
    <<"a", "b", "c", "d", "e", "f", "g", "h", "i", "j", "k", "l", "m",
      "n", "o", "p", "q", "r", "s", "t", "u", "v", "w", "x", "y", "z">>

\* \d, [A-Z] and \w of the regular expressions
IsDigit(c) == c \in {"0", "1", "2", "3", "4", "5", "6", "7", "8", "9"}
IsUpper(c) == \E i \in 1..Len(UpperCase) : UpperCase[i] = c
IsWordChar(c) ==
    \/ IsDigit(c)
    \/ IsUpper(c)
    \/ \E i \in 1..Len(LowerCase) : LowerCase[i] = c
    \/ c = "_"

\* str.lower()
LowerText(str) ==
    LET LowerChar(c) ==
            IF IsUpper(c)
            THEN LowerCase[CHOOSE i \in 1..Len(UpperCase) : UpperCase[i] = c]
            ELSE c
    IN  [i \in 1..Len(str) |-> LowerChar(str[i])]

\* str(int(digits)): the digits without their leading zeros.
RECURSIVE IntStr(_)
IntStr(digits) ==
    IF Len(digits) > 1 /\ Head(digits) = "0" THEN IntStr(Tail(digits))
    ELSE digits

\* The length of the longest run of characters of [A-Z\s] from position j.
RECURSIVE ClauseRun(_, _)
ClauseRun(str, j) ==
    IF j <= Len(str) /\ (IsUpper(str[j]) \/ IsSpace(str[j]))
    THEN 1 + ClauseRun(str, j + 1)
    ELSE 0

\* A match of time_pattern, \b(\d{1,2}):(\d{2})\s+([A-Z\s]+), that starts
\* at position i with m digits of minutes.
TimeMatchesAt(str, i, m) ==
    /\ i + m + 2 <= Len(str)
    /\ i = 1 \/ ~IsWordChar(str[i - 1])
    /\ \A k \in i..(i + m - 1) : IsDigit(str[k])
    /\ str[i + m] = ":"
    /\ IsDigit(str[i + m + 1]) /\ IsDigit(str[i + m + 2])
    /\ i + m + 3 <= Len(str) /\ IsSpace(str[i + m + 3])
    /\ ClauseRun(str, i + m + 3) >= 2

\* replace_time of preprocess_text_for_translation for that match:
\* f'{minutes}:{seconds} {following_text}' with minutes and seconds passed
\* through int() and following_text stripped and lower-cased.  \s+ takes
\* the white space in front of the clause (all but the last character of
\* the run when the run is white space only).
ReplaceTime(str, i, m) ==
    LET from == i + m + 3
        run == SubSeq(str, from, from + ClauseRun(str, from) - 1)
        group3 == IF LStrip(run) = <<>> THEN <<" ">> ELSE LStrip(run)
        following_text == LowerText(Strip(group3))
    IN  IntStr(SubSeq(str, i, i + m - 1)) \o <<":">>
            \o IntStr(SubSeq(str, i + m + 1, i + m + 2)) \o <<" ">>
            \o following_text


\* int(digits)
RECURSIVE IntOf(_)
IntOf(digits) ==
    IF digits = <<>> THEN 0
    ELSE 10 * IntOf(SubSeq(digits, 1, Len(digits) - 1))
             + (CHOOSE d \in 0..9 :
                    <<"0", "1", "2", "3", "4", "5", "6", "7", "8", "9">>[d + 1]
                        = digits[Len(digits)])

\* The words of inflect for 0..19 and for the tens from 20 on.
Ones ==
    <<
      <<"z", "e", "r", "o">>,
      <<"o", "n", "e">>,
      <<"t", "w", "o">>,
      <<"t", "h", "r", "e", "e">>,
      <<"f", "o", "u", "r">>,
      <<"f", "i", "v", "e">>,
      <<"s", "i", "x">>,
      <<"s", "e", "v", "e", "n">>,
      <<"e", "i", "g", "h", "t">>,
      <<"n", "i", "n", "e">>,
      <<"t", "e", "n">>,
      <<"e", "l", "e", "v", "e", "n">>,
      <<"t", "w", "e", "l", "v", "e">>,
      <<"t", "h", "i", "r", "t", "e", "e", "n">>,
      <<"f", "o", "u", "r", "t", "e", "e", "n">>,
      <<"f", "i", "f", "t", "e", "e", "n">>,
      <<"s", "i", "x", "t", "e", "e", "n">>,
      <<"s", "e", "v", "e", "n", "t", "e", "e", "n">>,
      <<"e", "i", "g", "h", "t", "e", "e", "n">>,
      <<"n", "i", "n", "e", "t", "e", "e", "n">>
    >>
Tens ==
    <<
      <<"t", "w", "e", "n", "t", "y">>,
      <<"t", "h", "i", "r", "t", "y">>,
      <<"f", "o", "r", "t", "y">>,
      <<"f", "i", "f", "t", "y">>,
      <<"s", "i", "x", "t", "y">>,
      <<"s", "e", "v", "e", "n", "t", "y">>,
      <<"e", "i", "g", "h", "t", "y">>,
      <<"n", "i", "n", "e", "t", "y">>
    >>

\* p.number_to_words(n) of inflect, for n below 100.
NumberToWords(n) ==
    IF n < 20 THEN Ones[n + 1]
    ELSE Tens[(n \div 10) - 1]
             \o (IF n % 10 = 0 THEN <<>> ELSE <<"-">> \o Ones[(n % 10) + 1])

\* replace_time of convert_numbers_to_english_words.
ReplaceTimeByWords(str, i, m) ==
    LET from == i + m + 3
        run == SubSeq(str, from, from + ClauseRun(str, from) - 1)
        group3 == IF LStrip(run) = <<>> THEN <<" ">> ELSE LStrip(run)
        following_text == LowerText(Strip(group3))
        minutes == IntOf(SubSeq(str, i, i + m - 1))
        seconds == IntOf(SubSeq(str, i + m + 1, i + m + 2))
        Spell(n, unit) == NumberToWords(n) \o <<" ">> \o unit
        min_part == Spell(minutes, <<"m", "i", "n", "u", "t", "e", "s">>)
        sec_part == Spell(seconds, <<"s", "e", "c", "o", "n", "d", "s">>)
        time_part ==
            IF minutes = 0 THEN sec_part
            ELSE IF seconds = 0 THEN min_part
            ELSE min_part \o <<" ">> \o sec_part
    IN  time_part \o <<" ">> \o following_text

RECURSIVE SubTimeFrom(_, _, _)
\* re.sub(time_pattern, replace_time, text) from position i on: the text
\* up to the next match, its replacement and the rest after it, with the
\* replace_time of convert_numbers_to_english_words (spoken) or that of
\* preprocess_text_for_translation.
SubTimeFrom(str, i, spoken) ==
    LET found == {j \in i..Len(str) : \E m \in {1, 2} : TimeMatchesAt(str, j, m)}
    IN  IF found = {} THEN SubSeq(str, i, Len(str))
        ELSE LET j == CHOOSE n \in found : \A k \in found : n <= k
                 m == CHOOSE k \in {1, 2} : TimeMatchesAt(str, j, k)
                 from == j + m + 3
             IN  SubSeq(str, i, j - 1)
                     \o (IF spoken THEN ReplaceTimeByWords(str, j, m)
                         ELSE ReplaceTime(str, j, m))
                     \o SubTimeFrom(str, from + ClauseRun(str, from), spoken)

RECURSIVE ReplaceAll(_, _, _)
\* str.replace(old, new): the occurrences of old are found from the left
\* and do not overlap.
ReplaceAll(str, old, new) ==
    LET found == {j \in 1..(Len(str) - Len(old) + 1) :
                     SubSeq(str, j, j + Len(old) - 1) = old}
    IN  IF found = {} THEN str
        ELSE LET j == CHOOSE n \in found : \A k \in found : n <= k
             IN  SubSeq(str, 1, j - 1) \o new
                     \o ReplaceAll(Drop(str, j + Len(old) - 1), old, new)

\* The dictionary abbreviations of handle_abbreviations, in its order.
Abbreviations ==
    <<
       <<<<"E", "a", "g", "l", "e", "s">>,
         <<"E", "a", "g", "l", "e", "s">>>>,
       <<<<"H", "a", "w", "k", "s">>,
         <<"H", "a", "w", "k", "s">>>>,
       <<<<"N", "B", "A">>,
         <<"N", " ", "B", " ", "A">>>>,
       <<<<"N", "F", "L">>,
         <<"N", " ", "F", " ", "L">>>>,
       <<<<"M", "L", "B">>,
         <<"M", " ", "L", " ", "B">>>>,
       <<<<"N", "H", "L">>,
         <<"N", " ", "H", " ", "L">>>>,
       <<<<"v", "s">>,
         <<"v", "e", "r", "s", "u", "s">>>>,
       <<<<"v", "s", ".">>,
         <<"v", "e", "r", "s", "u", "s">>>>,
       <<<<"&">>,
         <<"a", "n", "d">>>>,
       <<<<"%">>,
         <<"p", "e", "r", "c", "e", "n", "t">>>>,
       <<<<"$">>,
         <<"d", "o", "l", "l", "a", "r", "s">>>>,
       <<<<"#">>,
         <<"n", "u", "m", "b", "e", "r">>>>,
       <<<<"@">>,
         <<"a", "t">>>>,
       <<<<"+">>,
         <<"p", "l", "u", "s">>>>,
       <<<<"=">>,
         <<"e", "q", "u", "a", "l", "s">>>>,
       <<<<"/">>,
         <<"s", "l", "a", "s", "h">>>>,
       <<<<"\\">>,
         <<"b", "a", "c", "k", "s", "l", "a", "s", "h">>>>,
       <<<<"*">>,
         <<"a", "s", "t", "e", "r", "i", "s", "k">>>>,
       <<<<".", ".", ".">>,
         <<".", ".", ".">>>>,
       <<<<".", ".">>,
         <<".", ".">>>>
    >>

RECURSIVE ApplyTable(_, _, _, _)
\* for old, new in table.items(): text = text.replace(old, new), for the
\* entries first..last in their order: those of the first half, then
\* those of the second half.  No key of a table is empty, so the empty
\* text stays as it is.
ApplyTable(str, table, first, last) ==
    IF first > last \/ str = <<>> THEN str
    ELSE IF first = last
    THEN ReplaceAll(str, table[first][1], table[first][2])
    ELSE LET middle == (first + last) \div 2
         IN  ApplyTable(ApplyTable(str, table, first, middle),
                        table, middle + 1, last)

\* handle_abbreviations(text)
HandleAbbreviations(str) ==
    ApplyTable(str, Abbreviations, 1, Len(Abbreviations))

\* preprocess_text_for_translation(text).  The time expressions are
\* handled only when the import of inflect succeeds.
PreprocessTextForTranslation(str, inflect) ==
    LET timed == IF inflect THEN SubTimeFrom(str, 1, FALSE) ELSE str
        dashed == ReplaceAll(timed, <<"-">>, <<" ">>)
        \* the values of text, statement by statement
        values == <<timed, dashed>>
    IN  HandleAbbreviations(values[Len(values)])

PreprocessForTranslation ==
    FnReturns("preprocess_text_for_translation",
              PreprocessTextForTranslation(fargs.text, fargs.inflect))

\* Texts with a time expression, by their parts, and texts without one.
TimedTexts ==
    {[pre |-> pre, minutes |-> mm, seconds |-> ss, sep |-> sep,
      clause |-> cl, post |-> post] :
        pre \in {<<>>, <<"a", "t", " ">>, <<"x">>},
        mm \in {<<"1">>, <<"0", "1">>, <<"1", "2">>},
        ss \in {<<"5", "4">>, <<"0", "5">>},
        sep \in {<<>>, <<" ">>},
        cl \in {<<>>, <<"L", "E", "F", "T">>, <<"T", "O", " ", "G", "O">>,
                <<"l", "e", "f", "t">>},
        post \in {<<>>, <<" ", "i", "n">>, <<" ", "7">>}}

TextOf(parts) ==
    parts.pre \o parts.minutes \o <<":">> \o parts.seconds \o parts.sep
        \o parts.clause \o parts.post

PlainTexts ==
    {<<"1", "5", "-", "1", "2">>,
     <<"N", "B", "A", " ", "3">>,
     <<"7", " ", "v", "s", " ", "9">>,
     <<"5", "0", "%">>,
     <<"T", "E", "N", "-", "Y", "A", "R", "D">>}

RECURSIVE DigitRuns(_)
\* The digit sequences of a text, in their order.
DigitRuns(str) ==
    LET found == {j \in 1..Len(str) : IsDigit(str[j])}
    IN  IF found = {} THEN <<>>
        ELSE LET j == CHOOSE n \in found : \A k \in found : n <= k
                 end == CHOOSE k \in j..Len(str) :
                            /\ \A n \in j..k : IsDigit(str[n])
                            /\ k = Len(str) \/ ~IsDigit(str[k + 1])
             IN  <<SubSeq(str, j, end)>> \o DigitRuns(Drop(str, end))

\* ---- preprocess_text_for_tts
\* The length of the run of digits from position j.
RECURSIVE DigitRun(_, _)
DigitRun(str, j) ==
    IF j <= Len(str) /\ IsDigit(str[j]) THEN 1 + DigitRun(str, j + 1) ELSE 0

\* A match of \b(\d+)\b at position i: the whole run of digits, with no
\* word character on either side.
NumberMatchesAt(str, i) ==
    /\ IsDigit(str[i])
    /\ i = 1 \/ ~IsWordChar(str[i - 1])
    /\ LET end == i + DigitRun(str, i)
       IN  end > Len(str) \/ ~IsWordChar(str[end])

RECURSIVE SubNumbersFrom(_, _, _)
\* re.sub(r'\b(\d+)\b', ...) from position i on, for the numbers up to
\* `most` (every number with inflect, 0..20 in the fallback table).
SubNumbersFrom(str, i, most) ==
    LET found == {j \in i..Len(str) : NumberMatchesAt(str, j)}
    IN  IF found = {} THEN SubSeq(str, i, Len(str))
        ELSE LET j == CHOOSE n \in found : \A k \in found : n <= k
                 r == DigitRun(str, j)
                 digits == SubSeq(str, j, j + r - 1)
                 known == IF most = 20 THEN digits = IntStr(digits) ELSE TRUE
             IN  SubSeq(str, i, j - 1)
                     \o (IF IntOf(digits) <= most /\ known
                         THEN NumberToWords(IntOf(digits)) ELSE digits)
                     \o SubNumbersFrom(str, j + r, most)

\* convert_numbers_to_english_words(text): with inflect the time
\* expressions and then every number; on ImportError the table of the
\* numbers '0' .. '20', written without leading zeros.
ConvertNumbersToEnglishWords(str, inflect) ==
    IF inflect THEN SubNumbersFrom(SubTimeFrom(str, 1, TRUE), 1, 99)
    ELSE SubNumbersFrom(str, 1, 20)

\* The dictionary replacements of clean_punctuation, in its order.  The
\* fourth key is what the source makes of the two lines for the smart
\* apostrophes, which open and close a string in triple quotes.
Replacements ==
    <<<< <<"<inverted !>">>, <<>> >>,
      << <<"<inverted ?>">>, <<>> >>,
      << <<"\"">>, <<"\"">> >>,
      << <<":", " ", "\"", "'", "\"", ",", "\n",
           " ", " ", " ", " ", " ", " ", " ", " ">>, <<"'">> >>,
      << <<"<en dash>">>, <<"-">> >>,
      << <<"<em dash>">>, <<"-">> >>,
      << <<"<ellipsis>">>, <<".", ".", ".">> >> >>

RECURSIVE SubDoubleDots(_, _)
\* re.sub(r'(?<!\.)\.\.(?!\.)', ' .. ', text) from position i on.
SubDoubleDots(str, i) ==
    LET found == {j \in i..(Len(str) - 1) :
                     /\ str[j] = "." /\ str[j + 1] = "."
                     /\ j = 1 \/ str[j - 1] # "."
                     /\ j + 2 > Len(str) \/ str[j + 2] # "."}
    IN  IF found = {} THEN SubSeq(str, i, Len(str))
        ELSE LET j == CHOOSE n \in found : \A k \in found : n <= k
             IN  SubSeq(str, i, j - 1) \o <<" ", ".", ".", " ">>
                     \o SubDoubleDots(str, j + 2)

RECURSIVE SubScores(_, _)
\* re.sub(r'(\d+)-(\d+)', r'\1 to \2', text) from position i on.
SubScores(str, i) ==
    LET found == {j \in i..Len(str) :
                     LET r1 == DigitRun(str, j)
                     IN  /\ r1 > 0
                         /\ j + r1 <= Len(str)
                         /\ str[j + r1] = "-"
                         /\ DigitRun(str, j + r1 + 1) > 0}
    IN  IF found = {} THEN SubSeq(str, i, Len(str))
        ELSE LET j == CHOOSE n \in found : \A k \in found : n <= k
                 r1 == DigitRun(str, j)
                 r2 == DigitRun(str, j + r1 + 1)
             IN  SubSeq(str, i, j - 1)
                     \o SubSeq(str, j, j + r1 - 1) \o <<" ", "t", "o", " ">>
                     \o SubSeq(str, j + r1 + 1, j + r1 + r2)
                     \o SubScores(str, j + r1 + 1 + r2)

\* The length of the run of the character c from position j.
RECURSIVE CharRun(_, _, _)
CharRun(str, j, c) ==
    IF j <= Len(str) /\ str[j] = c THEN 1 + CharRun(str, j + 1, c) ELSE 0

RECURSIVE CollapseRuns(_, _, _, _)
\* re.sub of a run of at least `least` characters c by `new`.
CollapseRuns(str, c, least, new) ==
    LET found == {j \in 1..Len(str) : CharRun(str, j, c) >= least}
    IN  IF found = {} THEN str
        ELSE LET j == CHOOSE n \in found : \A k \in found : n <= k
                 r == CharRun(str, j, c)
             IN  SubSeq(str, 1, j - 1) \o new
                     \o CollapseRuns(Drop(str, j + r - 1), c, least, new)

\* clean_punctuation(text)
CleanPunctuation(str) ==
    LET replaced == ApplyTable(str, Replacements, 1, Len(Replacements))
        dots == SubDoubleDots(replaced, 1)
        scores == SubScores(dots, 1)
        exclamations == CollapseRuns(scores, "!", 2, <<"!">>)
        questions == CollapseRuns(exclamations, "?", 2, <<"?">>)
        ellipsis == CollapseRuns(questions, ".", 4, <<".", ".", ".">>)
        spaces == CollapseRuns(ellipsis, " ", 1, <<" ">>)
        \* the values of text, statement by statement
        values == <<replaced, dots, scores, exclamations, questions,
                    ellipsis, spaces>>
    IN  Strip(values[Len(values)])

\* preprocess_text_for_tts(text, convert_numbers)
PreprocessTextForTts(str, convert_numbers, inflect) ==
    LET converted ==
            IF convert_numbers THEN ConvertNumbersToEnglishWords(str, inflect)
            ELSE str
        dashed == ReplaceAll(converted, <<"-">>, <<" ">>)
        abbreviated == HandleAbbreviations(dashed)
        \* the values of text, statement by statement
        values == <<converted, dashed, abbreviated>>
    IN  CleanPunctuation(values[Len(values)])

PreprocessForTts ==
    FnReturns("preprocess_text_for_tts",
              PreprocessTextForTts(fargs.text, fargs.convert_numbers,
                                   fargs.inflect))

SpeechTexts ==
    {<<"1", "5", "-", "1", "2">>,
     <<"1", "5", "<en dash>", "1", "2">>,
     <<"u", "p", " ", "3", "-", "0", " ", "n", "o", "w">>,
     <<"2", "1", "-", "2", "0", "-", "7">>,
     <<"0", "7", " ", "2", "N", "D">>,
     <<"w", "o", "w", "!", "!", "!">>,
     <<"a", ".", ".", "b">>,
     <<"n", "o", ".", ".", ".", ".", ".">>,
     <<"s", "o", ".", ".", ".">>,
     <<"<inverted ?>", "q", "u", "e", "?", "?">>,
     <<" ", "a", " ", " ", "b", " ">>,
     <<"<ellipsis>", "5", "0", "%">>}

\* Whether `sub` occurs in the text.
Contains(str, sub) ==
    \E i \in 1..(Len(str) - Len(sub) + 1) :
        SubSeq(str, i, i + Len(sub) - 1) = sub

\* The scores <digits>-<digits> of a text, as pairs of digit sequences.
ScoresOf(str) ==
    {<<SubSeq(str, i, j - 1), SubSeq(str, j + 1, j + DigitRun(str, j + 1))>> :
        <<i, j>> \in {ij \in (1..Len(str)) \X (1..Len(str)) :
                        /\ ij[1] < ij[2]
                        /\ str[ij[2]] = "-"
                        /\ DigitRun(str, ij[1]) = ij[2] - ij[1]
                        /\ ij[1] = 1 \/ ~IsDigit(str[ij[1] - 1])
                        /\ DigitRun(str, ij[2] + 1) > 0}}

\* ---- detect_speaker
\* The match of ([A-Z][a-z]+): at position i: the name, or the empty text
\* when there is no match.
LabelAt(str, i) ==
    LET IsLower(c) == \E j \in 1..Len(LowerCase) : LowerCase[j] = c
        k == Cardinality({n \in (i + 1)..Len(str) :
                             \A m \in (i + 1)..n : IsLower(str[m])})
    IN  IF /\ i <= Len(str)
           /\ IsUpper(str[i])
           /\ k >= 1
           /\ i + k + 1 <= Len(str)
           /\ str[i + k + 1] = ":"
        THEN SubSeq(str, i, i + k)
        ELSE <<>>

\* detect_speaker(text): the name matched by ^([A-Z][a-z]+):\s* or by
\* ^>>\s*([A-Z][a-z]+): , else 'default'.
DetectSpeaker(str) ==
    LET after_marker == Len(str) - Len(LStrip(Drop(str, 2))) + 1
    IN  IF LabelAt(str, 1) # <<>> THEN LabelAt(str, 1)
        ELSE IF StartsWith(str, <<">", ">">>) /\ LabelAt(str, after_marker) # <<>>
        THEN LabelAt(str, after_marker)
        ELSE <<"d", "e", "f", "a", "u", "l", "t">>

\* _process_fragment without a speaker detector: the speaker is the one
\* detect_speaker finds in the text, and clean_speaker_prefix is called
\* with it.
TextSpeaker ==
    FnReturns("text_speaker",
              [speaker |-> DetectSpeaker(fargs.text),
               clean_text |->
                   CleanSpeakerPrefix(fargs.text, DetectSpeaker(fargs.text))])

\* Transcripts with and without a leading label.
LabelledTexts ==
    {pre \o name \o sep \o rest :
        pre \in {<<>>, <<">", ">">>, <<">", ">", " ">>},
        name \in {<<"J", "o">>, <<"J">>, <<"o", "o">>},
        sep \in {<<>>, <<":">>, <<":", " ">>, <<" ">>},
        rest \in {<<>>, <<"o", "o">>, <<"J", "o", " ", "o">>}}

\* ---- the specification of the functions
\* The calls: the function and its arguments.  Durations of a fragment are
\* in seconds; the configurations have entries for "es" and "commentator"
\* only; the texts given to clean_speaker_prefix are all texts of at most
\* MaxChars characters.
FnCalls ==
    LET Call(f, a) == [fn |-> f, args |-> a]
        NoParts == [pre |-> <<>>, minutes |-> <<>>, seconds |-> <<>>,
                    sep |-> <<>>, clause |-> <<>>, post |-> <<>>]
    IN  {Call(f, [segments |-> segs, duration |-> d]) :
            f \in {"live_segments", "server_segments"},
            segs \in SegmentLists, d \in {2, 3}}
        \cup
        {Call("metadata", [duration |-> d, sampleRate |-> r]) :
            d \in DeclaredDurations, r \in DeclaredSampleRates}
        \cup
        {Call("get_speaker_voice_config",
              [speaker_id |-> sp, target_lang |-> l,
               voices_config |-> vc, vits_config |-> vits]) :
            sp \in SpeakerIds, l \in Languages,
            vc \in SUBSET {<<"speaker_mapping", "commentator">>,
                           <<"speaker_mapping", "default">>,
                           <<"languages", "es", "speakers", "commentator">>},
            vits \in SUBSET {<<"vits_models", "es", "commentator">>,
                             <<"vits_models", "es", "default">>}}
        \cup
        {Call("get_speaker_voice",
              [voices |-> v, language |-> l, speaker |-> sp]) :
            v \in VoiceTables, l \in Languages, sp \in SpeakerIds}
        \cup
        {Call("clean_speaker_prefix", [text |-> t, speaker |-> sp]) :
            t \in UNION {[1..k -> {"J", "o", ":", " "}] : k \in 0..MaxChars},
            sp \in {<<"J">>, <<"J", "o">>}}
        \cup
        {Call("text_speaker", [text |-> t]) : t \in LabelledTexts}
        \cup
        {Call("preprocess_text_for_translation",
              [text |-> TextOf(parts), parts |-> parts, inflect |-> i]) :
            parts \in TimedTexts, i \in BOOLEAN}
        \cup
        {Call("preprocess_text_for_translation",
              [text |-> t, parts |-> NoParts, inflect |-> i]) :
            t \in PlainTexts, i \in BOOLEAN}
        \cup
        {Call("preprocess_text_for_tts",
              [text |-> t, convert_numbers |-> c, inflect |-> i]) :
            t \in SpeechTexts \cup PlainTexts
                    \cup {TextOf(p) : p \in TimedTexts},
            c \in BOOLEAN, i \in BOOLEAN}

FnInit ==
    /\ ServerInit
    /\ AudioIdle
    /\ TextIdle
    /\ LiveIdle
    /\ ToolsIdle
    /\ fpc = "call"
    /\ \E c \in FnCalls : fname = c.fn /\ fargs = c.args
    /\ fret = <<>>

FnNext ==
    \/ LiveCombineSegments
    \/ ServerCombineSegments
    \/ FragmentMetadata
    \/ SpeakerVoiceConfig
    \/ SpeakerVoice
    \/ CleanPrefix
    \/ TextSpeaker
    \/ PreprocessForTranslation
    \/ PreprocessForTts

FnSpec == FnInit /\ [][FnNext]_vars

\* ------------------------------------------------------------ AudioStreamProcessor
\* process_audio_file of talk_audio_stream.py for one target language.  The
\* main thread transcribes and puts the segments on translation_queue,
\* waits, saves the mixed audio and cleans up; _translation_worker and
\* _audio_worker are threads of their own.  A segment is its number.
otherVars == <<coreVars, bridgeVars, detectorVars>>

\* process_audio_file up to _start_threads: running is set and the worker
\* threads are started.
StreamInit ==
    /\ ServerInit
    /\ AudioIdle
    /\ TextIdle
    /\ LiveIdle
    /\ FnIdle
    /\ BridgeIdle
    /\ DetectorIdle
    /\ spc = "transcribe"
    /\ srunning = TRUE
    /\ translation_queue = <<>>
    /\ audio_queue = <<>>
    /\ trpc = "loop"
    /\ trcur = 0
    /\ aupc = "loop"
    /\ aucur = 0
    /\ mixed_audio = {}
    /\ saved = [done |-> FALSE, segments |-> {}]
    /\ sput = 0
    /\ sdropped = {}

\* _start_transcription, _process_completed_utterances: the next segment
\* is transcribed and put on translation_queue.  transcription_queue is
\* filled and emptied by the main thread itself.
StreamTranscribe ==
    /\ spc = "transcribe"
    /\ sput < MaxUtterances
    /\ translation_queue' = Append(translation_queue, sput + 1)
    /\ sput' = sput + 1
    /\ UNCHANGED <<otherVars, spc, srunning, audio_queue, trpc, trcur, aupc,
                   aucur, mixed_audio, saved, sdropped>>

\* _start_transcription returns and _wait_for_completion passes its first
\* loop: transcription_queue is empty.
StreamTranscriptionComplete ==
    /\ spc = "transcribe"
    /\ spc' = "wait_translation"
    /\ UNCHANGED <<otherVars, srunning, translation_queue, audio_queue,
                   trpc, trcur, aupc, aucur, mixed_audio, saved, sput,
                   sdropped>>

\* while not self.translation_queue.empty(): time.sleep(0.1)
WaitForTranslation ==
    /\ spc = "wait_translation"
    /\ translation_queue = <<>>
    /\ spc' = "wait_audio"
    /\ UNCHANGED <<otherVars, srunning, translation_queue, audio_queue,
                   trpc, trcur, aupc, aucur, mixed_audio, saved, sput,
                   sdropped>>

\* while not self.audio_queue.empty(): time.sleep(0.1), and the return of
\* _wait_for_completion.
WaitForAudio ==
    /\ spc = "wait_audio"
    /\ audio_queue = <<>>
    /\ spc' = "save"
    /\ UNCHANGED <<otherVars, srunning, translation_queue, audio_queue,
                   trpc, trcur, aupc, aucur, mixed_audio, saved, sput,
                   sdropped>>

\* _save_mixed_audio: sf.write("temp_mixed_audio.wav", self.mixed_audio, ...)
SaveMixedAudio ==
    /\ spc = "save"
    /\ saved' = [done |-> TRUE, segments |-> mixed_audio]
    /\ spc' = "cleanup"
    /\ UNCHANGED <<otherVars, srunning, translation_queue, audio_queue,
                   trpc, trcur, aupc, aucur, mixed_audio, sput, sdropped>>

\* KeyboardInterrupt during the transcription or the wait: on to the
\* finally clause, nothing is saved.
StreamInterrupted ==
    /\ spc \in {"transcribe", "wait_translation", "wait_audio"}
    /\ spc' = "cleanup"
    /\ UNCHANGED <<otherVars, srunning, translation_queue, audio_queue,
                   trpc, trcur, aupc, aucur, mixed_audio, saved, sput,
                   sdropped>>

\* _cleanup: self.running = False
StreamCleanup ==
    /\ spc = "cleanup"
    /\ srunning' = FALSE
    /\ spc' = "join"
    /\ UNCHANGED <<otherVars, translation_queue, audio_queue, trpc, trcur,
                   aupc, aucur, mixed_audio, saved, sput, sdropped>>

\* _cleanup: the joins of the worker threads.
StreamJoin ==
    /\ spc = "join"
    /\ trpc = "stopped"
    /\ aupc = "stopped"
    /\ spc' = "done"
    /\ UNCHANGED <<otherVars, srunning, translation_queue, audio_queue,
                   trpc, trcur, aupc, aucur, mixed_audio, saved, sput,
                   sdropped>>

\* _translation_worker: while self.running
TranslationWorkerLoop ==
    /\ trpc = "loop"
    /\ trpc' = IF srunning THEN "get" ELSE "stopped"
    /\ UNCHANGED <<otherVars, spc, srunning, translation_queue, audio_queue,
                   trcur, aupc, aucur, mixed_audio, saved, sput, sdropped>>

\* self.translation_queue.get(timeout=1.0), or queue.Empty and continue.
TranslationWorkerGet ==
    /\ trpc = "get"
    /\ IF translation_queue = <<>>
       THEN /\ trpc' = "loop"
            /\ UNCHANGED <<translation_queue, trcur>>
       ELSE /\ trcur' = Head(translation_queue)
            /\ translation_queue' = Tail(translation_queue)
            /\ trpc' = "translate"
    /\ UNCHANGED <<otherVars, spc, srunning, audio_queue, aupc, aucur,
                   mixed_audio, saved, sput, sdropped>>

\* Speaker, translation and synthesis of the segment in hand, then
\* self.audio_queue.put(...); or an exception of one of them, which the
\* except clause of the loop reports.
TranslationWorkerProcess ==
    /\ trpc = "translate"
    /\ \/ /\ audio_queue' = Append(audio_queue, trcur)
          /\ UNCHANGED sdropped
       \/ /\ sdropped' = sdropped \cup {trcur}
          /\ UNCHANGED audio_queue
    /\ trcur' = 0
    /\ trpc' = "loop"
    /\ UNCHANGED <<otherVars, spc, srunning, translation_queue, aupc, aucur,
                   mixed_audio, saved, sput>>

\* _audio_worker: while self.running
AudioWorkerLoop ==
    /\ aupc = "loop"
    /\ aupc' = IF srunning THEN "get" ELSE "stopped"
    /\ UNCHANGED <<otherVars, spc, srunning, translation_queue, audio_queue,
                   trpc, trcur, aucur, mixed_audio, saved, sput, sdropped>>

\* self.audio_queue.get(timeout=1.0), or queue.Empty and continue.
AudioWorkerGet ==
    /\ aupc = "get"
    /\ IF audio_queue = <<>>
       THEN /\ aupc' = "loop"
            /\ UNCHANGED <<audio_queue, aucur>>
       ELSE /\ aucur' = Head(audio_queue)
            /\ audio_queue' = Tail(audio_queue)
            /\ aupc' = "mix"
    /\ UNCHANGED <<otherVars, spc, srunning, translation_queue, trpc, trcur,
                   mixed_audio, saved, sput, sdropped>>

\* The synthesized audio is read and mixed into self.mixed_audio; or an
\* exception, which the except clause of the loop reports.
AudioWorkerMix ==
    /\ aupc = "mix"
    /\ \/ /\ mixed_audio' = mixed_audio \cup {aucur}
          /\ UNCHANGED sdropped
       \/ /\ sdropped' = sdropped \cup {aucur}
          /\ UNCHANGED mixed_audio
    /\ aucur' = 0
    /\ aupc' = "loop"
    /\ UNCHANGED <<otherVars, spc, srunning, translation_queue, audio_queue,
                   trpc, trcur, saved, sput>>

StreamNext ==
    \/ StreamTranscribe
    \/ StreamTranscriptionComplete
    \/ WaitForTranslation
    \/ WaitForAudio
    \/ SaveMixedAudio
    \/ StreamInterrupted
    \/ StreamCleanup
    \/ StreamJoin
    \/ TranslationWorkerLoop
    \/ TranslationWorkerGet
    \/ TranslationWorkerProcess
    \/ AudioWorkerLoop
    \/ AudioWorkerGet
    \/ AudioWorkerMix

StreamSpec == StreamInit /\ [][StreamNext]_vars

\* ------------------------------------------------------------ STSStreamingBridge
\* run of sts_streaming_bridge.py after the demux service has answered.
\* The Socket.IO client calls the handler of fragment:processed for one
\* event at a time; the n-th event carries fragment n.
bridgeFrame == <<coreVars, streamVars, detectorVars>>

BridgeInit ==
    /\ ServerInit
    /\ AudioIdle
    /\ TextIdle
    /\ LiveIdle
    /\ FnIdle
    /\ StreamIdle
    /\ DetectorIdle
    /\ bpc = "connect"
    /\ brunning = FALSE
    /\ bridge_queue = <<>>
    /\ bwpc = [w \in Threads |-> "unstarted"]
    /\ bwcur = [w \in Threads |-> 0]
    /\ bevents = 0
    /\ bput = <<>>
    /\ bsent = <<>>
    /\ bstarts = 0

\* self.sts_client.connect(...) and the emit of subscribe.
BridgeConnect ==
    /\ bpc = "connect"
    /\ bpc' = "subscribed"
    /\ UNCHANGED <<bridgeFrame, brunning, bridge_queue, bwpc, bwcur, bevents,
                   bput, bsent, bstarts>>

\* self.running = True
BridgeSetRunning ==
    /\ bpc = "subscribed"
    /\ brunning' = TRUE
    /\ bpc' = "start"
    /\ UNCHANGED <<bridgeFrame, bridge_queue, bwpc, bwcur, bevents, bput,
                   bsent, bstarts>>

\* self.streaming_thread.is_alive(): the thread has been started and has
\* not left _streaming_worker.
IsAlive_never(pc) == FALSE
IsAlive(pc) == pc \in {"loop", "get", "send"}

\* start_streaming_thread: nothing when the thread it started last is
\* alive, otherwise a new thread.  run calls it once; a further call is
\* one made by the code that embeds the bridge.
StartStreamingThread ==
    /\ bpc \in {"start", "serving"}
    /\ bstarts < MaxStarts
    /\ bstarts' = bstarts + 1
    /\ bpc' = "serving"
    /\ IF \E w \in Threads : IsAlive(bwpc[w])
       THEN UNCHANGED bwpc
       ELSE \E w \in Threads :
               /\ bwpc[w] = "unstarted"
               /\ bwpc' = [bwpc EXCEPT ![w] = "loop"]
    /\ UNCHANGED <<bridgeFrame, brunning, bridge_queue, bwcur, bevents, bput,
                   bsent>>

\* fragment_processed, handle_processed_fragment: the fragment is put on
\* the queue; an event without 'fragment', 'data' or the fields that are
\* printed raises before the put.
HandleProcessedFragment(well_formed) ==
    /\ bpc \in {"subscribed", "start", "serving"}
    /\ bevents < MaxEvents
    /\ bevents' = bevents + 1
    /\ IF well_formed
       THEN /\ bridge_queue' = Append(bridge_queue, bevents + 1)
            /\ bput' = Append(bput, bevents + 1)
       ELSE UNCHANGED <<bridge_queue, bput>>
    /\ UNCHANGED <<bridgeFrame, bpc, brunning, bwpc, bwcur, bsent, bstarts>>

\* KeyboardInterrupt or an exception in run: the finally clause clears
\* running and disconnects.
BridgeStop ==
    /\ bpc \in {"subscribed", "start", "serving"}
    /\ brunning' = FALSE
    /\ bpc' = "stopped"
    /\ UNCHANGED <<bridgeFrame, bridge_queue, bwpc, bwcur, bevents, bput,
                   bsent, bstarts>>

\* _streaming_worker: while self.running
StreamingWorkerLoop(w) ==
    /\ bwpc[w] = "loop"
    /\ bwpc' = [bwpc EXCEPT ![w] = IF brunning THEN "get" ELSE "stopped"]
    /\ UNCHANGED <<bridgeFrame, bpc, brunning, bridge_queue, bwcur, bevents,
                   bput, bsent, bstarts>>

\* self.audio_queue.get(timeout=1.0), or queue.Empty and continue.
StreamingWorkerGet(w) ==
    /\ bwpc[w] = "get"
    /\ IF bridge_queue = <<>>
       THEN /\ bwpc' = [bwpc EXCEPT ![w] = "loop"]
            /\ UNCHANGED <<bridge_queue, bwcur>>
       ELSE /\ bwcur' = [bwcur EXCEPT ![w] = Head(bridge_queue)]
            /\ bridge_queue' = Tail(bridge_queue)
            /\ bwpc' = [bwpc EXCEPT ![w] = "send"]
    /\ UNCHANGED <<bridgeFrame, bpc, brunning, bevents, bput, bsent, bstarts>>

\* _send_to_demux returns True (HTTP 200) or False (another status or an
\* exception of the request), then task_done and the loop test.
StreamingWorkerSend(w, success) ==
    /\ bwpc[w] = "send"
    /\ bsent' = Append(bsent, [fragment |-> bwcur[w], success |-> success])
    /\ bwcur' = [bwcur EXCEPT ![w] = 0]
    /\ bwpc' = [bwpc EXCEPT ![w] = "loop"]
    /\ UNCHANGED <<bridgeFrame, bpc, brunning, bridge_queue, bevents, bput,
                   bstarts>>

StreamingWorker(w) ==
    \/ StreamingWorkerLoop(w)
    \/ StreamingWorkerGet(w)
    \/ \E success \in BOOLEAN : StreamingWorkerSend(w, success)

BridgeNext ==
    \/ BridgeConnect
    \/ BridgeSetRunning
    \/ StartStreamingThread
    \/ \E well_formed \in BOOLEAN : HandleProcessedFragment(well_formed)
    \/ BridgeStop
    \/ \E w \in Threads : StreamingWorker(w)

BridgeSpec == BridgeInit /\ [][BridgeNext]_vars

\* ------------------------------------------------------------ SpeakerDetector
\* identify_speaker and register_speaker of utils/speaker_detection.py on
\* one detector with max_speakers = MaxSpeakers.  The embedding of an
\* audio is the voice that speaks in it: two embeddings are similar, at
\* or above the threshold, exactly when they are of the same voice.
\* self.speaker_embeddings is the sequence of its entries (id, embedding)
\* in insertion order.
Voices == {"v1", "v2", "v3"}

\* f"speaker_{n}"
SpeakerName(n) ==
    <<"speaker_0", "speaker_1", "speaker_2", "speaker_3", "speaker_4",
      "speaker_5">>[n + 1]

\* The ids register_speaker is called with.
RegisteredIds == {"speaker_0", "speaker_1", "referee"}

detectorFrame == <<coreVars, streamVars, bridgeVars>>

\* SpeakerDetector.__init__
DetectorInit ==
    /\ ServerInit
    /\ AudioIdle
    /\ TextIdle
    /\ LiveIdle
    /\ FnIdle
    /\ StreamIdle
    /\ BridgeIdle
    /\ dpc = "ready"
    /\ speaker_embeddings = <<>>
    /\ next_speaker_id = 0
    /\ dret = "-"
    /\ dcalls = 0
    /\ doverwritten = {}

SpeakerIdsOf(entries) == {entries[i].id : i \in 1..Len(entries)}

\* self.speaker_embeddings[speaker_id] = embedding: the entry of the id is
\* replaced where it is, or a new entry is added at the end.
SetEmbedding(entries, speaker_id, embedding) ==
    IF speaker_id \in SpeakerIdsOf(entries)
    THEN [i \in 1..Len(entries) |->
             IF entries[i].id = speaker_id
             THEN [id |-> speaker_id, embedding |-> embedding]
             ELSE entries[i]]
    ELSE Append(entries, [id |-> speaker_id, embedding |-> embedding])

\* The first entry with the greatest similarity to the embedding:
\* similarities.index(max(similarities)).
BestSpeaker(entries, embedding) ==
    IF \E i \in 1..Len(entries) : entries[i].embedding = embedding
    THEN entries[CHOOSE i \in 1..Len(entries) :
                    /\ entries[i].embedding = embedding
                    /\ \A j \in 1..(i - 1) : entries[j].embedding # embedding]
    ELSE entries[1]

\* A new speaker speaker_{next_speaker_id} is stored with the embedding.
NewSpeaker(embedding) ==
    /\ speaker_embeddings' =
           SetEmbedding(speaker_embeddings, SpeakerName(next_speaker_id),
                        embedding)
    /\ doverwritten' =
           IF SpeakerName(next_speaker_id) \in SpeakerIdsOf(speaker_embeddings)
           THEN doverwritten \cup {SpeakerName(next_speaker_id)}
           ELSE doverwritten
    /\ dret' = SpeakerName(next_speaker_id)
    /\ next_speaker_id' = next_speaker_id + 1

\* identify_speaker on an audio of the voice: the first speaker, a match
\* (the moving average of two embeddings of one voice is that voice), a
\* new speaker while there is room, or the closest speaker.
IdentifySpeaker(voice) ==
    /\ dpc = "ready"
    /\ dcalls < MaxCalls
    /\ dcalls' = dcalls + 1
    /\ IF Len(speaker_embeddings) = 0
       THEN NewSpeaker(voice)
       ELSE IF BestSpeaker(speaker_embeddings, voice).embedding = voice
       THEN /\ dret' = BestSpeaker(speaker_embeddings, voice).id
            /\ UNCHANGED <<speaker_embeddings, next_speaker_id, doverwritten>>
       ELSE IF Len(speaker_embeddings) < MaxSpeakers
       THEN NewSpeaker(voice)
       ELSE /\ dret' = BestSpeaker(speaker_embeddings, voice).id
            /\ UNCHANGED <<speaker_embeddings, next_speaker_id, doverwritten>>
    /\ UNCHANGED <<detectorFrame, dpc>>

\* identify_speaker or register_speaker when extract_embedding raises: the
\* except clause returns ("default", 0.0) or False.
EmbeddingFails(result) ==
    /\ dpc = "ready"
    /\ dcalls < MaxCalls
    /\ dcalls' = dcalls + 1
    /\ dret' = result
    /\ UNCHANGED <<detectorFrame, dpc, speaker_embeddings, next_speaker_id,
                   doverwritten>>

\* register_speaker(speaker_id, audio of the voice)
RegisterSpeaker(speaker_id, voice) ==
    /\ dpc = "ready"
    /\ dcalls < MaxCalls
    /\ dcalls' = dcalls + 1
    /\ speaker_embeddings' = SetEmbedding(speaker_embeddings, speaker_id, voice)
    /\ dret' = "True"
    /\ UNCHANGED <<detectorFrame, dpc, next_speaker_id, doverwritten>>

DetectorNext ==
    \/ \E voice \in Voices : IdentifySpeaker(voice)
    \/ \E result \in {"default", "False"} : EmbeddingFails(result)
    \/ \E speaker_id \in RegisteredIds, voice \in Voices :
           RegisterSpeaker(speaker_id, voice)

DetectorSpec == DetectorInit /\ [][DetectorNext]_vars

\* ------------------------------------------------------------ properties
\* Items put on the queue so far, by put order.
Enqueued == 1..Len(enqueued)

\* The worker has taken item n and is done with it.
Finished(n) == hist[n].takes > 0 /\ \A t \in Threads : wcur[t].n # n

\* The events emitted for item n.
EventsOf(n) == {i \in 1..Len(emitted) : emitted[i].n = n}

InPipeline(t) == wpc[t] \in PipelinePcs

\* C1: fragment:processed events are emitted in the order in which their
\* fragments were put on processing_queue, whichever connections they came
\* from.
C1_FifoEmission ==
    \A i, j \in 1..Len(emitted) : i < j => emitted[i].n < emitted[j].n

C1_Witness ==
    /\ Len(emitted) = 2
    /\ emitted[1].room # emitted[2].room

\* C2: one worker thread drains the queue, at most one fragment is inside
\* _process_fragment, and while the worker holds a fragment every fragment
\* enqueued before it has left the pipeline and has been emitted or counted
\* as failed.
C2_AtMostOneInFlight ==
    /\ Cardinality({t \in Threads : wpc[t] # "unstarted"}) <= 1
    /\ Cardinality({t \in Threads : InPipeline(t)}) <= 1
    /\ \A t \in Threads : wcur[t] # NoItem =>
          \A m \in 1..(wcur[t].n - 1) :
              /\ Finished(m)
              /\ hist[m].result # "pending"
              /\ hist[m].emit = "sent" \/ failed_count >= 1

C2_Witness ==
    \E t \in Threads :
        /\ InPipeline(t)
        /\ wcur[t].n = 2
        /\ wcur[t].sid # enqueued[1].sid
        /\ hist[1].result = None
        /\ failed_count = 1

\* C3 as stated: a fragment the worker is done with has had its
\* fragment:processed event, and no other kind of event is emitted.
C3_EveryFragmentAnswered ==
    /\ \A n \in Enqueued : Finished(n) => EventsOf(n) # {}
    /\ \A i \in 1..Len(emitted) : emitted[i].name = "fragment:processed"

\* C3 amended: the only events are fragment:processed events carrying the
\* processed or the original audio; a fragment the worker is done with has
\* its event exactly when the pipeline returned output and the emit did not
\* raise; and every enqueued fragment is eventually finished by the worker
\* unless running is cleared.
C3_AnsweredUnlessNoOutput ==
    /\ [](\A i \in 1..Len(emitted) :
            /\ emitted[i].name = "fragment:processed"
            /\ emitted[i].data \in {"processed", "original"}
            /\ emitted[i].data = hist[emitted[i].n].result)
    /\ [](\A n \in Enqueued : Finished(n) =>
            (EventsOf(n) # {} <=>
                (hist[n].result # None /\ hist[n].emit = "sent")))
    /\ []<>(~running \/ \A n \in Enqueued : Finished(n))

C3_Witness ==
    /\ Len(enqueued) = 2
    /\ Finished(1) /\ hist[1].result = None /\ EventsOf(1) = {}
    /\ Finished(2) /\ hist[2].result = "original" /\ EventsOf(2) # {}

\* C4 as stated: when the decode succeeded and the transcribe, translate or
\* synthesize stage raised, _process_fragment returns bytes, not None.
C4_StageExceptionFallsBack ==
    \A t \in Threads :
        (wpc[t] = "returned" /\ wraised[t] \in {"transcribe", "translate", "synthesize"})
            => wout[t] # None

\* C5: a failed decode ends the fragment: no other stage has run,
\* _process_fragment returns None, and the worker's next step for it counts
\* the failure and emits nothing; no event is ever emitted for a fragment
\* whose pipeline returned None.
C5_DecodeFailureTerminal ==
    /\ [](\A t \in Threads : wraised[t] = "decode" =>
            /\ wpc[t] = "returned"
            /\ wout[t] = None
            /\ wstages[t] = {"decode"})
    /\ [](\A n \in Enqueued : hist[n].result = None => EventsOf(n) = {})
    /\ [][\A t \in Threads :
            (wraised[t] = "decode" /\ wpc'[t] # wpc[t]) =>
                /\ failed_count' = failed_count + 1
                /\ emitted' = emitted
                /\ wpc'[t] = "loop"]_vars

C5_Witness ==
    \E n \in Enqueued :
        /\ Finished(n)
        /\ hist[n].result = None
        /\ hist[n].entries = 1
        /\ failed_count = 1
        /\ emitted = <<>>

C7_AtMostOnce ==
    \A n \in Enqueued :
        /\ hist[n].takes <= 1
        /\ hist[n].entries <= 1
        /\ Cardinality(EventsOf(n)) <= 1
        /\ Cardinality({i \in 1..Len(processing_queue) :
                           processing_queue[i].n = n}) + hist[n].takes = 1

C7_Witness ==
    /\ Len(enqueued) = 2
    /\ Finished(1) /\ hist[1].result = None
    /\ Finished(2) /\ Cardinality(EventsOf(2)) = 1

\* C8: an event goes to the room of the connection that delivered the
\* fragment and carries the metadata enqueued with it, with
\* processedSequentially true.
C8_AddressedToSender ==
    \A i \in 1..Len(emitted) :
        /\ emitted[i].n \in Enqueued
        /\ emitted[i].room = enqueued[emitted[i].n].sid
        /\ emitted[i].fragment = enqueued[emitted[i].n].fragment
        /\ emitted[i].processedSequentially = TRUE

C8_Witness ==
    /\ Len(emitted) = 2
    /\ emitted[1].room # emitted[2].room
    /\ emitted[1].fragment.id = 2

\* C9: the speed factor is a value from 1.0 to 2.0; it is 1.0, and the
\* stretch is not called, when the synthesized and the original duration
\* differ by at most 0.1 s; the stretch is called only with a factor above
\* 1.0, so the audio is never slowed down.
C9_SpeedFactorRange ==
    /\ required_speed[2] <= required_speed[1]
    /\ required_speed[1] <= 2 * required_speed[2]
    /\ stretch_calls <= 1
    /\ (apc # "match" /\ ~DurationsDiffer(tts_audio, audio_data, actual_sample_rate))
          => (required_speed = <<1, 1>> /\ stretch_calls = 0)
    /\ stretch_calls = 1 => FasterThanOne(required_speed)
    /\ Len(synthesized_audio) <= Len(tts_audio)

C9_Witness ==
    /\ apc = "done"
    /\ stretch_calls = 1
    /\ required_speed = <<2, 1>>
    /\ Len(tts_audio) > 2 * Len(audio_data)
    /\ Len(synthesized_audio) < Len(tts_audio)

C12_StretchNeverRaises ==
    /\ [][apc = "stretch" => apc' = "levels"]_vars
    /\ [](stretch_failed =>
            /\ synthesized_audio = tts_audio
            /\ apc \in {"levels", "mix", "encode", "done"}
            /\ apc = "done" => output \in EncodeAudio(final_audio, actual_sample_rate))

C12_Witness ==
    /\ apc = "done"
    /\ stretch_failed
    /\ Len(tts_audio) = 4
    /\ synthesized_audio = tts_audio
    /\ Len(output.samples) = Len(audio_data)

\* The mixer has returned: final_audio is its result for the speech
\* synthesized_audio and the background audio_data.
Mixed == apc \in {"encode", "done"}

\* C13: with mixing enabled, every sample of the mixer output below the
\* shorter length is 0.7 * speech + 0.3 * background (amplitudes in tenths,
\* so 10 * output = 7 * speech + 3 * background); for inputs of equal length
\* this is the whole output.
C13_BlendLaw ==
    (Mixed /\ ~no_mixing) =>
        /\ \A i \in 1..Min(Len(synthesized_audio), Len(audio_data)) :
              /\ i \in DOMAIN final_audio
              /\ 10 * final_audio[i] = 7 * synthesized_audio[i] + 3 * audio_data[i]
        /\ Len(synthesized_audio) = Len(audio_data) =>
              DOMAIN final_audio = DOMAIN synthesized_audio

C13_Witness ==
    /\ apc = "done"
    /\ ~no_mixing
    /\ synthesized_audio = <<10, 0, 10>>
    /\ audio_data = <<0, 10, 10>>
    /\ final_audio = <<7, 3, 10>>

\* C14 as stated: with no_mixing the mixer output is the speech input
\* unchanged, same samples and same length, whatever the lengths.
C14_TtsOnlyUnchanged ==
    (Mixed /\ no_mixing) => final_audio = synthesized_audio

\* C15: with mixing enabled the mixer output has exactly the length of the
\* shorter input: nothing is padded and the background beyond the speech is
\* dropped.
C15_BlendLengthIsMin ==
    (Mixed /\ ~no_mixing) =>
        /\ Len(final_audio) = Min(Len(synthesized_audio), Len(audio_data))
        /\ Len(final_audio) <= Len(synthesized_audio)
        /\ Len(final_audio) <= Len(audio_data)

C15_Witness ==
    /\ apc = "done"
    /\ ~no_mixing
    /\ Len(synthesized_audio) = 1
    /\ Len(audio_data) = 3
    /\ Len(final_audio) = 1

\* The number of words of the text, and the largest number of occurrences of
\* one word in it, case ignored.
NumWords == Len(text.words)
MostFrequent ==
    IF NumWords = 0 THEN 0
    ELSE LET occ(i) == Cardinality({j \in 1..NumWords :
                           Lower(text.words[j]) = Lower(text.words[i])})
         IN  CHOOSE m \in {occ(i) : i \in 1..NumWords} :
                 \A i \in 1..NumWords : occ(i) <= m

\* C16: for a duration above 0, _is_likely_hallucination returns True
\* exactly when the text has at least 10 words and the most frequent word
\* makes up more than 30% of the words, or there are more than 15 words per
\* second, or more than 100 characters per second; for fewer than 10 words
\* it returns False at any density.
C16_HallucinationRule ==
    (tpc = "done" /\ original_duration > 0) =>
        /\ hallucination \in {"True", "False"}
        /\ (hallucination = "True") <=>
              /\ NumWords >= 10
              /\ \/ 10 * MostFrequent > 3 * NumWords
                 \/ 10 * NumWords > 15 * original_duration
                 \/ 10 * text.chars > 100 * original_duration
        /\ NumWords < 10 => hallucination = "False"

C16_Witness ==
    /\ tpc = "done"
    /\ NumWords = 12
    /\ MostFrequent = 3
    /\ original_duration = 10
    /\ text.chars = 119
    /\ hallucination = "True"

\* C17 as stated: for 12 words of which none makes up more than 30%,
\* _is_likely_hallucination returns False whatever the duration.
C17_EvenTwelveIsFalse ==
    (tpc = "done" /\ NumWords = 12 /\ 10 * MostFrequent <= 3 * NumWords) =>
        hallucination = "False"

\* C17 amended: for 12 words of which none makes up more than 30%,
\* _is_likely_hallucination returns False exactly when the duration is above
\* 0 and there are at most 15 words and at most 100 characters per second;
\* on a higher density it returns True, and on a duration of 0 it raises.
C17_EvenTwelveByDensity ==
    (tpc = "done" /\ NumWords = 12 /\ 10 * MostFrequent <= 3 * NumWords) =>
        /\ (hallucination = "False") <=>
              /\ original_duration > 0
              /\ 10 * NumWords <= 15 * original_duration
              /\ 10 * text.chars <= 100 * original_duration
        /\ (hallucination = "raised") <=> original_duration = 0

C17_Witness ==
    /\ tpc = "done"
    /\ NumWords = 12
    /\ MostFrequent = 1
    /\ original_duration = 5
    /\ text.chars = 47
    /\ hallucination = "True"

\* The pipeline of thread t has returned from the transcription stage.
ReturnedFromTranscribe(t) ==
    /\ wpc[t] = "returned"
    /\ "transcribe" \in wstages[t]
    /\ "hallucination" \notin wstages[t]

\* C19: when the transcription of a decoded fragment has no segment, the
\* pipeline returns the encoded original audio without running the
\* hallucination check, the translation, the synthesis or the duration
\* matching and mixing, and the worker's next step for the fragment hands a
\* fragment:processed event with that audio to sio.emit for the sender.
C19_NoSegmentsPassThrough ==
    /\ [](\A t \in Threads : ReturnedFromTranscribe(t) =>
            /\ wout[t] = "original"
            /\ "decode" \in wstages[t]
            /\ wstages[t] \cap {"hallucination", "normalize", "translate",
                              "synthesize", "match", "mix"} = {})
    /\ [][\A t \in Threads :
            (wpc[t] = "transcribe" /\ wpc'[t] # wpc[t]) =>
                \/ wpc'[t] = "hallucination"
                \/ ReturnedFromTranscribe(t)']_vars
    /\ [][\A t \in Threads :
            (ReturnedFromTranscribe(t) /\ wpc'[t] # wpc[t]) =>
                \/ emitted' = Append(emitted, ProcessedEvent(wcur[t], "original"))
                \/ hist'[wcur[t].n].emit = "raised"]_vars

C19_Witness ==
    \E t \in Threads :
        /\ ReturnedFromTranscribe(t)
        /\ wstages[t] = {"decode", "transcribe", "encode"}
        /\ wout[t] = "original"
        /\ wcur[t].n = 2
        /\ Len(emitted) = 1

\* C20 as stated: a configuration error ends the server at startup, with no
\* worker started, running false and nothing enqueued, and no model fails
\* to load once fragments are being processed.
C20_ConfigErrorOnlyAtStartup ==
    /\ (mainpc = "exited" /\ \A t \in Threads : wpc[t] = "unstarted") =>
            (~running /\ enqueued = <<>> /\ arrivals = 0)
    /\ \A t \in Threads : wraised[t] # "model_load"

\* C18 as stated, for LiveStreamProcessor: when the hallucination check is
\* true, _process_fragment returns the original audio encoded again and has
\* called neither the translation nor the synthesis.
C18_HallucinationBypasses ==
    (lpc = "returned" /\ lcheck = "True") =>
        /\ lout = "original"
        /\ linvoked \cap {"translate", "synthesize"} = {}

\* C21 as stated: the wav file used after a hit of the synthesis cache is
\* one that synthesizing and speed-adjusting afresh for the fragment in
\* hand (same translated text, its own original duration) would give.
C21_CacheHitEqualsFresh ==
    (lpc = "encode" /\ lhit) =>
        lwav \in AdjustedWavs(ltranslated, lduration)

\* C22 as stated: of the segments the transcription returned, those that
\* start after the declared duration are not in the transcript, those that
\* start within it and end after it are in the transcript with their end
\* at the duration, the kept segments are in time order and combined_text
\* is their texts in that order, and with no segment kept the fragment is
\* passed through.
C22_SegmentsFiltered ==
    (Returned("live_segments") \/ Returned("server_segments")) =>
        LET D == fargs.duration
            kept == fret.segments
        IN  /\ \A i \in 1..Len(kept) : kept[i].start <= D /\ kept[i].end <= D
            /\ \A i \in 1..Len(fargs.segments) :
                   LET seg == fargs.segments[i] IN
                   (seg.start < D /\ seg.end > D) =>
                       \E j \in 1..Len(kept) :
                           kept[j] = [seg EXCEPT !.end = D]
            /\ \A i, j \in 1..Len(kept) :
                   i < j => kept[i].end <= kept[j].start
            /\ fret.combined_text = JoinSegments(kept)
            /\ fret.passthrough = (kept = <<>>)

\* C23: the declared duration is divided by 1000 exactly when it is a
\* number above 100, a number of 100 or less is the duration in seconds as
\* it is, and the sample rate is 44100 when the fragment declares none and
\* the declared one otherwise.
C23_DurationAndSampleRate ==
    Returned("metadata") =>
        LET declared == fargs.duration IN
        /\ (fret.duration.den = 1000) <=>
               (declared.type = "number" /\ declared.value > 100)
        /\ fret.duration.den \in {1, 1000}
        /\ declared # Absent =>
               /\ fret.duration.num = declared.value
               /\ fret.duration.type = declared.type
        /\ fret.sample_rate =
               IF fargs.sampleRate = Absent THEN Number(44100)
               ELSE fargs.sampleRate

\* A duration in milliseconds was converted for a fragment that declares
\* no sample rate.
C23_Witness ==
    /\ Returned("metadata")
    /\ fargs.duration = Number(3000)
    /\ fargs.sampleRate = Absent
    /\ fret.duration = [type |-> "number", num |-> 3000, den |-> 1000]
    /\ fret.sample_rate = Number(44100)

\* C24 as stated: the voice of a speaker and a target language is the
\* explicit entry of the speaker for that language when the configuration
\* has one, otherwise the default voice of the language when it has one,
\* otherwise a global fallback voice; and a voice is returned for every
\* speaker and language, known or not.
C24_VoicePriority ==
    /\ Returned("get_speaker_voice_config") =>
           LET sp == fargs.speaker_id
               l == fargs.target_lang
               explicit ==
                   {<<"vits_models", l, sp>>,
                    <<"languages", l, "speakers", sp>>}
                       \cap (fargs.vits_config \cup fargs.voices_config)
               language_default ==
                   {<<"vits_models", l, "default">>} \cap fargs.vits_config
           IN  IF explicit # {} THEN fret.entry \in explicit
               ELSE IF language_default # {}
               THEN fret.entry \in language_default
               ELSE fret.entry \in {<<"speaker_mapping", sp>>,
                                     <<"speaker_mapping", "default">>,
                                     <<"css10", l>>}
    /\ Returned("get_speaker_voice") =>
           LET sp == fargs.speaker
               l == fargs.language
           IN  /\ fret.model_name # <<None>>
               /\ IF <<l, "speakers", sp>> \in fargs.voices
                  THEN fret.entry = <<l, "speakers", sp>>
                  ELSE IF <<l, "speakers", "default">> \in fargs.voices
                  THEN fret.entry = <<l, "speakers", "default">>
                  ELSE TRUE

\* C25 as stated: clean_speaker_prefix returns the text it was given
\* whenever the text does not begin with the label followed by a colon or
\* a space.
C25_UnchangedWithoutPrefix ==
    Returned("clean_speaker_prefix") =>
        (~(StartsWith(fargs.text, fargs.speaker \o <<":">>)
             \/ StartsWith(fargs.text, fargs.speaker \o <<" ">>))
            => fret = fargs.text)

\* C26 as stated: the digit sequences of the text given to
\* preprocess_text_for_translation are the digit sequences of its result,
\* and a text MM:SS followed by a clause in capitals comes out as the same
\* MM:SS followed by the clause in lower case.
C26_NumeralsPreserved ==
    Returned("preprocess_text_for_translation") =>
        /\ DigitRuns(fret) = DigitRuns(fargs.text)
        /\ LET parts == fargs.parts IN
           (/\ parts.pre = <<>> /\ parts.post = <<>>
            /\ parts.sep = <<" ">>
            /\ parts.clause # <<>>
            /\ \A i \in 1..Len(parts.clause) :
                   IsUpper(parts.clause[i]) \/ IsSpace(parts.clause[i]))
               => fret = parts.minutes \o <<":">> \o parts.seconds
                             \o <<" ">> \o LowerText(parts.clause)

\* C27 as stated: for every score <digits>-<digits> of the text given to
\* preprocess_text_for_tts, with or without number conversion, the result
\* has "<digits> to <digits>" with the same digits.
C27_ScoresRewritten ==
    Returned("preprocess_text_for_tts") =>
        \A score \in ScoresOf(fargs.text) :
            Contains(fret, score[1] \o <<" ", "t", "o", " ">> \o score[2])

\* The stages in the order the claim lists them, and the place of a stage
\* in that order.
StageOrder ==
    <<"decode", "speaker", "transcribe", "hallucination", "normalize",
      "translate", "synthesize", "match", "mix", "encode">>
StageRank(stage) == CHOOSE i \in 1..Len(StageOrder) : StageOrder[i] = stage

C29_ExactlyOneCounter ==
    (\A t \in Threads : wcur[t] = NoItem) =>
        processed_count + failed_count
            = Cardinality({n \in Deliveries : Finished(n)})

\* C30 as stated: whenever no fragment:data handler is running,
\* fragment_count is the number of non-empty deliveries the handlers
\* accepted, and fragments_received of every connected client is the
\* number of that client's deliveries that were accepted.
C30_NoLostIncrement ==
    (\A sid \in Sids : hpc[sid] = "idle") =>
        /\ fragment_count = arrivals
        /\ \A sid \in DOMAIN connected_clients :
               connected_clients[sid].fragments_received
                   = Cardinality({i \in 1..Len(enqueued) :
                                     enqueued[i].sid = sid})

\* C31: an empty queue never blocks the worker for good: a get that finds
\* the queue empty comes back to the loop test; once start_server has
\* cleared running the flag stays cleared, a worker that is not already
\* waiting on the queue never waits on it again (so it takes at most one
\* more fragment), a stopped worker stays stopped, and every started
\* worker stops.
C31_WorkerStopsAfterShutdown ==
    /\ [][\A t \in Threads :
            wpc[t] = "get" /\ processing_queue = <<>> /\ wpc'[t] # "get"
                => wpc'[t] = "loop"]_vars
    /\ [][mainpc = "exited" => ~running']_vars
    /\ [][\A t \in Threads :
            /\ ~running /\ wpc[t] # "get" => wpc'[t] # "get"
            /\ wpc[t] = "stopped" => wpc'[t] = "stopped"]_vars
    /\ \A t \in Threads :
           (mainpc = "exited" /\ wpc[t] # "unstarted") ~> (wpc[t] = "stopped")

\* The server was shut down and the worker has stopped with a fragment
\* still on the queue.
C31_Witness ==
    /\ mainpc = "exited"
    /\ ~running
    /\ processing_queue # <<>>
    /\ \E t \in WorkerThreads : wpc[t] = "stopped"

\* C32: when _wait_for_completion has returned and the mixed audio has been
\* saved, every segment that was put on translation_queue and that no
\* worker lost to an exception is in the saved audio.
C32_SavedAudioComplete ==
    saved.done => (1..sput) \ sdropped \subseteq saved.segments

\* C33: the bridge hands the fragments to _send_to_demux in the order in
\* which it received them, each at most once; at most one streaming worker
\* is alive; and a worker that has sent a fragment, successfully or not,
\* is back at its loop test.
C33_ForwardedInOrder ==
    /\ [](/\ Len(bsent) <= Len(bput)
          /\ \A i \in 1..Len(bsent) : bsent[i].fragment = bput[i]
          /\ Cardinality({w \in Threads : IsAlive(bwpc[w])}) <= 1)
    /\ [][\A w \in Threads :
            bwpc[w] = "send" /\ bwpc'[w] # "send" => bwpc'[w] = "loop"]_vars

\* A send failed and the next fragment was sent successfully, while a
\* second call of start_streaming_thread found the worker alive.
C33_Witness ==
    /\ bstarts = 2
    /\ \E i \in 1..(Len(bsent) - 1) :
           ~bsent[i].success /\ bsent[i + 1].success

C35_CheckIsTotal ==
    tpc = "done" => hallucination \in {"True", "False"}

\* C36: a delivery with empty data changes nothing: no item is put on the
\* queue, fragment_count and the counters of the clients stay as they
\* are and no handler is left running; hence every item that is ever
\* enqueued has data, and every fragment:processed event is the event of
\* an item that was enqueued.
C36_EmptyDeliveryDropped ==
    /\ [][empties' # empties =>
            UNCHANGED <<processing_queue, enqueued, fragment_count,
                        connected_clients, handlerVars, emitted>>]_vars
    /\ [](\A n \in Enqueued : enqueued[n].data = "bytes")
    /\ [](\A i \in 1..Len(emitted) : emitted[i].n \in Enqueued)

\* A delivery with empty data has arrived, the same client has delivered a
\* fragment with data, and the worker has emitted the event of that
\* fragment: one received, one processed, one event.
C36_Witness ==
    /\ empties = 1
    /\ arrivals = 1
    /\ fragment_count = 1
    /\ Len(emitted) = 1
    /\ \E sid \in DOMAIN connected_clients :
           /\ connected_clients[sid].fragments_received = 1
           /\ connected_clients[sid].fragments_processed = 1

\* C37 as stated: when detect_speaker finds a label in the text, with or
\* without the marker >> in front, clean_speaker_prefix called with that
\* label returns what follows the label and its colon, stripped.
C37_LabelRemoved ==
    (Returned("text_speaker")
        /\ fret.speaker # <<"d", "e", "f", "a", "u", "l", "t">>) =>
        LET body == IF StartsWith(fargs.text, <<">", ">">>)
                    THEN LStrip(Drop(fargs.text, 2))
                    ELSE fargs.text
        IN  fret.clean_text = Strip(Drop(body, Len(fret.speaker) + 1))

\* C38 as stated: the detector never tracks more than max_speakers
\* speakers, and an id speaker_N that identify_speaker creates is never
\* the id of a speaker it already tracks.
C38_BoundedAndFresh ==
    /\ Len(speaker_embeddings) <= MaxSpeakers
    /\ doverwritten = {}

====
